---- MODULE Spec2Model ----
(***************************************************************************)
(* Logic-Pro-MCP: the accessibility-tree extraction engine (Swift helper   *)
(* and JXA fallback), the dual-backend coordinator, the tool handlers, the *)
(* tool-call request handler, the plugin-catalog parser and the virtual    *)
(* MIDI port with the MIDI tools.                                          *)
(*                                                                         *)
(* Text is modelled as a sequence of one-character strings, so that the    *)
(* parsers, lowercased() and the numeric conversions are computed and not  *)
(* assumed.  The UI tree of the host application is a sequence of elements *)
(* in pre-order, each carrying its depth (windows have depth 0).           *)
(***************************************************************************)
EXTENDS Integers, Sequences, FiniteSets, TLC

VARIABLES ui, pre, call, log, written, out, hout, result,
          output, ports, sent, tasks

(* the MIDI bridge: the module variable `output` (0 is null, otherwise the *)
(* number of an Output object), the Output objects created so far, the     *)
(* messages handed to sendMessage, and the tool calls in flight            *)
midiVars == <<output, ports, sent, tasks>>

vars == <<ui, pre, call, log, written, out, hout, result,
          output, ports, sent, tasks>>

-----------------------------------------------------------------------------
(* Bounds of the model *)

MaxParamElems == 2

-----------------------------------------------------------------------------
(* Text *)

sGain == <<"G", "a", "i", "n">>
sGainLower == <<"g", "a", "i", "n">>
sGainMode == <<"G", "a", "i", "n", " ", "M", "o", "d", "e">>
sHalf == <<"0", ".", "5">>
sAbc == <<"a", "b", "c">>
sZero == <<"0">>

Digits == {"0", "1", "2", "3", "4", "5", "6", "7", "8", "9"}

DigitVal(c) ==
    CASE c = "0" -> 0 [] c = "1" -> 1 [] c = "2" -> 2 [] c = "3" -> 3
      [] c = "4" -> 4 [] c = "5" -> 5 [] c = "6" -> 6 [] c = "7" -> 7
      [] c = "8" -> 8 [] c = "9" -> 9

LowerChar(c) ==
    CASE c = "A" -> "a" [] c = "B" -> "b" [] c = "C" -> "c" [] c = "D" -> "d"
      [] c = "E" -> "e" [] c = "F" -> "f" [] c = "G" -> "g" [] c = "H" -> "h"
      [] c = "I" -> "i" [] c = "J" -> "j" [] c = "K" -> "k" [] c = "L" -> "l"
      [] c = "M" -> "m" [] c = "N" -> "n" [] c = "O" -> "o" [] c = "P" -> "p"
      [] c = "Q" -> "q" [] c = "R" -> "r" [] c = "S" -> "s" [] c = "T" -> "t"
      [] c = "U" -> "u" [] c = "V" -> "v" [] c = "W" -> "w" [] c = "X" -> "x"
      [] c = "Y" -> "y" [] c = "Z" -> "z" [] OTHER -> c

lowercased(s) == [i \in 1..Len(s) |-> LowerChar(s[i])]

AllDigits(s) == \A i \in 1..Len(s) : s[i] \in Digits

(* Swift Float(String): an optional sign, digits with at most one decimal   *)
(* point and at least one digit.  (The texts of the model hold no exponent, *)
(* hexadecimal or nan/inf spelling.)                                        *)
FloatParses(s) ==
    LET body == IF Len(s) > 0 /\ s[1] \in {"+", "-"} THEN Tail(s) ELSE s
        dots == {i \in 1..Len(body) : body[i] = "."}
    IN  /\ Cardinality(dots) <= 1
        /\ \E i \in 1..Len(body) : body[i] \in Digits
        /\ \A i \in 1..Len(body) : body[i] \in Digits \cup {"."}

(* characters outside ASCII are written by their code point *)
qLow9 == "U+201E"
qLeft == "U+201C"
qRight == "U+201D"
qStraight == "\""

sSpuren == <<"S", "p", "u", "r", "e", "n">>
sTracks == <<"T", "r", "a", "c", "k", "s">>
sSpurPrefix == <<"S", "p", "u", "r", " ">>
sTrackPrefix == <<"T", "r", "a", "c", "k", " ">>
sMute == <<"M", "u", "t", "e">>
sSolo == <<"S", "o", "l", "o">>
sVolume == <<"V", "o", "l", "u", "m", "e">>
sAufnahme == <<"A", "u", "f", "n", "a", "h", "m", "e">>
sRecord == <<"R", "e", "c", "o", "r", "d">>
sM == <<"M">>
sS == <<"S">>
sR == <<"R">>
sOne == <<"1">>
s64 == <<"6", "4">>
sEQ == <<"E", "Q">>

hasPrefix(s, p) == Len(s) >= Len(p) /\ SubSeq(s, 1, Len(p)) = p

contains(s, sub) ==
    \E i \in 1..(Len(s) - Len(sub) + 1) : SubSeq(s, i, i + Len(sub) - 1) = sub

(* first and last position of a character, 0 when absent *)
indexOf(s, c) ==
    LET hits == {i \in 1..Len(s) : s[i] = c}
    IN  IF hits = {} THEN 0 ELSE CHOOSE i \in hits : \A k \in hits : i <= k

lastIndexOf(s, c) ==
    LET hits == {i \in 1..Len(s) : s[i] = c}
    IN  IF hits = {} THEN 0 ELSE CHOOSE i \in hits : \A k \in hits : i >= k

dropFirst(s, n) == SubSeq(s, n + 1, Len(s))

removeChars(s, cs) == SelectSeq(s, LAMBDA c : c \notin cs)

trim(s) ==
    LET keep == {i \in 1..Len(s) : s[i] # " "}
    IN  IF keep = {} THEN <<>>
        ELSE SubSeq(s, CHOOSE i \in keep : \A k \in keep : i <= k,
                       CHOOSE i \in keep : \A k \in keep : i >= k)

(* JavaScript split(" "): empty pieces are kept *)
RECURSIVE splitJS(_)
splitJS(s) ==
    LET i == indexOf(s, " ")
    IN  IF i = 0 THEN <<s>>
        ELSE <<SubSeq(s, 1, i - 1)>> \o splitJS(dropFirst(s, i))

(* Swift split(separator: " "): empty pieces are omitted *)
splitSwift(s) == SelectSeq(splitJS(s), LAMBDA t : t # <<>>)

(* Swift split(separator: " ", maxSplits: n): after n pieces the rest of   *)
(* the text, from behind the separator, is the last piece                  *)
RECURSIVE splitSwiftMax(_, _)
splitSwiftMax(s, n) ==
    IF s = <<>> THEN <<>>
    ELSE IF n = 0 THEN <<s>>
    ELSE LET i == indexOf(s, " ")
         IN  IF i = 0 THEN <<s>>
             ELSE IF i = 1 THEN splitSwiftMax(dropFirst(s, 1), n)
             ELSE <<SubSeq(s, 1, i - 1)>> \o splitSwiftMax(dropFirst(s, i), n - 1)

RECURSIVE digitsValue(_)
digitsValue(s) ==
    IF s = <<>> THEN 0
    ELSE 10 * digitsValue(SubSeq(s, 1, Len(s) - 1)) + DigitVal(s[Len(s)])

(* a JSON number, or null *)
Num(n) == [t |-> "num", n |-> n]
Null == [t |-> "null", n |-> 0]

(* Swift Int(String): an optional sign followed by digits only; Null is nil *)
swiftInt(s) ==
    LET neg == Len(s) > 0 /\ s[1] = "-"
        body == IF Len(s) > 0 /\ s[1] \in {"+", "-"} THEN Tail(s) ELSE s
    IN  IF body # <<>> /\ AllDigits(body)
        THEN Num(IF neg THEN 0 - digitsValue(body) ELSE digitsValue(body))
        ELSE Null

(* JavaScript parseInt: leading blanks, an optional sign, then the longest *)
(* run of digits; Null is NaN                                              *)
parseInt(s) ==
    LET keep == {i \in 1..Len(s) : s[i] # " "}
        t == IF keep = {} THEN <<>>
             ELSE dropFirst(s, (CHOOSE i \in keep : \A k \in keep : i <= k) - 1)
        neg == Len(t) > 0 /\ t[1] = "-"
        body == IF Len(t) > 0 /\ t[1] \in {"+", "-"} THEN Tail(t) ELSE t
        nond == {i \in 1..Len(body) : body[i] \notin Digits}
        run == IF nond = {} THEN body
               ELSE SubSeq(body, 1, (CHOOSE i \in nond : \A k \in nond : i <= k) - 1)
    IN  IF run = <<>> THEN Null
        ELSE Num(IF neg THEN 0 - digitsValue(run) ELSE digitsValue(run))

(* JavaScript cv == 1 for a text cv: the trimmed text denotes the number 1 *)
looseEqualsOne(s) ==
    LET t == trim(s)
        dot == indexOf(t, ".")
        ip == IF dot = 0 THEN t ELSE SubSeq(t, 1, dot - 1)
        fp == IF dot = 0 THEN <<>> ELSE dropFirst(t, dot)
    IN  /\ ip # <<>> /\ AllDigits(ip) /\ digitsValue(ip) = 1
        /\ \A i \in 1..Len(fp) : fp[i] = "0"

-----------------------------------------------------------------------------
(* Element model: the tree is a pre-order sequence of elements with depths *)

Elem(d, role, desc, title, value) ==
    [d |-> d, role |-> role, desc |-> desc, title |-> title, value |-> value]

SubtreeEnd(T, i) ==
    LET stop == {j \in (i + 1)..Len(T) : T[j].d <= T[i].d}
    IN  IF stop = {} THEN Len(T)
        ELSE (CHOOSE j \in stop : \A k \in stop : j <= k) - 1

getChildren(T, i) ==
    LET last == SubtreeEnd(T, i)
    IN  SelectSeq([k \in 1..(last - i) |-> i + k],
                  LAMBDA j : T[j].d = T[i].d + 1)

(* getChildren(app): the windows of the application *)
appWindows(T) ==
    SelectSeq([k \in 1..Len(T) |-> k], LAMBDA j : T[j].d = 0)

getRole(T, i) == T[i].role
getTitle(T, i) == T[i].title
getDescription(T, i) == T[i].desc
getValue(T, i) == T[i].value

(* level of element j below element i (direct children are level 1) *)
LevelBelow(T, i, j) == T[j].d - T[i].d

-----------------------------------------------------------------------------
(* Swift helper: set-param *)

ParamMaxDepth == 8

WithinDepth(depth, maxDepth) == depth < maxDepth

(* name = !desc.isEmpty ? desc : title *)
ControlName(T, element) ==
    IF getDescription(T, element) # <<>> THEN getDescription(T, element)
    ELSE getTitle(T, element)

(* a name that contains paramName taken as a match *)
NameMatches_Substring(name, paramName) ==
    contains(lowercased(name), lowercased(paramName))

NameMatches(name, paramName) == lowercased(name) = lowercased(paramName)

(* the two branches of findAndSetParameter that write and return true *)
WritesControl(role, value) ==
    \/ role = "AXSlider" /\ FloatParses(value)
    \/ role = "AXTextField"

(* AXUIElementSetAttributeValue: the host either stores the value or      *)
(* rejects the write; the AXError it returns is discarded by the caller.   *)
AXUIElementSetAttributeValue(T, element, value, accept) ==
    IF accept THEN [T EXCEPT ![element].value = value] ELSE T

NotFound(T) == [found |-> FALSE, tree |-> T, writes |-> <<>>]

RECURSIVE findAndSetParameter(_, _, _, _, _, _, _)
findAndSetParameter(T, elements, paramName, value, depth, maxDepth, accept) ==
    IF ~WithinDepth(depth, maxDepth) \/ elements = <<>> THEN NotFound(T)
    ELSE
      LET element == Head(elements)
          role == getRole(T, element)
          name == ControlName(T, element)
      IN  IF NameMatches(name, paramName) /\ WritesControl(role, value)
          THEN [found |-> TRUE,
                tree |-> AXUIElementSetAttributeValue(T, element, value, accept),
                writes |-> <<element>>]
          ELSE
            LET children == getChildren(T, element)
                sub == IF children # <<>>
                       THEN findAndSetParameter(T, children, paramName, value,
                                                depth + 1, maxDepth, accept)
                       ELSE NotFound(T)
            IN  IF sub.found THEN sub
                ELSE findAndSetParameter(T, Tail(elements), paramName, value,
                                         depth, maxDepth, accept)

(* Output of one run of the helper process *)
Stdout(kind, val) == [kind |-> kind, val |-> val]
NoStdout == Stdout("empty", <<>>)

HelperRun(code, stdout, stderr, tree, writes) ==
    [code |-> code, stdout |-> stdout, stderr |-> stderr,
     tree |-> tree, writes |-> writes]

RECURSIVE SetInWindows(_, _, _, _, _)
SetInWindows(T, windows, paramName, value, accept) ==
    IF windows = <<>> THEN NotFound(T)
    ELSE LET r == findAndSetParameter(T, getChildren(T, Head(windows)),
                                      paramName, value, 0, ParamMaxDepth, accept)
         IN  IF r.found THEN r
             ELSE SetInWindows(T, Tail(windows), paramName, value, accept)

(* the search scoped to the window at the position of the track *)
setPluginParameter_WindowOfTrack(T, trackIndex, slotIndex, paramName, value, accept) ==
    LET ws == appWindows(T)
        r == SetInWindows(T, IF trackIndex + 1 <= Len(ws)
                             THEN <<ws[trackIndex + 1]>> ELSE <<>>,
                          paramName, value, accept)
    IN  IF r.found
        THEN HelperRun(0, Stdout("text", "Parameter set successfully"), "",
                       r.tree, r.writes)
        ELSE HelperRun(0, NoStdout, "Parameter not found", T, <<>>)

setPluginParameter(T, trackIndex, slotIndex, paramName, value, accept) ==
    LET r == SetInWindows(T, appWindows(T), paramName, value, accept)
    IN  IF r.found
        THEN HelperRun(0, Stdout("text", "Parameter set successfully"), "",
                       r.tree, r.writes)
        ELSE HelperRun(0, NoStdout, "Parameter not found", T, <<>>)

-----------------------------------------------------------------------------
(* Swift helper: get-params *)

IsParameterRole(role) ==
    role = "AXSlider" \/ role = "AXTextField" \/ role = "AXPopUpButton"

RECURSIVE findParameters(_, _, _, _, _)
findParameters(T, elements, params, depth, maxDepth) ==
    IF ~WithinDepth(depth, maxDepth) \/ elements = <<>> THEN params
    ELSE
      LET element == Head(elements)
          role == getRole(T, element)
          name == ControlName(T, element)
          p1 == IF IsParameterRole(role) /\ name # <<>>
                THEN Append(params, [name |-> name,
                                     value |-> getValue(T, element),
                                     role |-> role,
                                     elem |-> element])
                ELSE params
          children == getChildren(T, element)
          p2 == IF children # <<>>
                THEN findParameters(T, children, p1, depth + 1, maxDepth)
                ELSE p1
      IN  findParameters(T, Tail(elements), p2, depth, maxDepth)

RECURSIVE ParamsInWindows(_, _, _)
ParamsInWindows(T, windows, params) ==
    IF windows = <<>> THEN params
    ELSE ParamsInWindows(T, Tail(windows),
            findParameters(T, getChildren(T, Head(windows)), params,
                           0, ParamMaxDepth))

getPluginParametersAX(T, trackIndex, slotIndex) ==
    HelperRun(0, Stdout("json", ParamsInWindows(T, appWindows(T), <<>>)), "",
              T, <<>>)

-----------------------------------------------------------------------------
(* Swift helper: list-tracks *)

ContainerMaxDepth == 4
TrackMaxDepth == 12

RECURSIVE findElementByDescription(_, _, _, _)
RECURSIVE findInChildren(_, _, _, _)

(* direct children first, then each child's subtree; 0 is nil *)
findElementByDescription(T, root, description, maxDepth) ==
    LET children == getChildren(T, root)
        direct == SelectSeq(children,
                            LAMBDA c : getDescription(T, c) = description)
    IN  IF direct # <<>> THEN Head(direct)
        ELSE IF maxDepth > 0
             THEN findInChildren(T, children, description, maxDepth - 1)
             ELSE 0

findInChildren(T, children, description, maxDepth) ==
    IF children = <<>> THEN 0
    ELSE LET found == findElementByDescription(T, Head(children), description,
                                               maxDepth)
         IN  IF found # 0 THEN found
             ELSE findInChildren(T, Tail(children), description, maxDepth)

isTrackDescription(desc) ==
    hasPrefix(desc, sSpurPrefix) \/ hasPrefix(desc, sTrackPrefix)

extractTrackName(desc) ==
    IF indexOf(desc, qLow9) # 0
    THEN trim(removeChars(dropFirst(desc, indexOf(desc, qLow9)),
                          {qLeft, qRight, qStraight}))
    ELSE IF indexOf(desc, qStraight) # 0
    THEN LET name == dropFirst(desc, indexOf(desc, qStraight))
             endq == indexOf(name, qStraight)
         IN  trim(IF endq # 0 THEN SubSeq(name, 1, endq - 1) ELSE name)
    ELSE LET parts == splitSwiftMax(desc, 2)
         IN  IF Len(parts) >= 3 THEN parts[3] ELSE desc

extractTrackNumber(desc) ==
    LET parts == splitSwift(desc)
    IN  IF Len(parts) >= 2 /\ swiftInt(parts[2]) # Null
        THEN swiftInt(parts[2])
        ELSE Num(-1)

NoMeta == [muted |-> FALSE, solo |-> FALSE, recordEnabled |-> FALSE,
           volume |-> Num(0)]

RECURSIVE extractTrackMetaFrom(_, _, _)
extractTrackMetaFrom(T, children, meta) ==
    IF children = <<>> THEN meta
    ELSE
      LET child == Head(children)
          role == getRole(T, child)
          desc == getDescription(T, child)
          value == getValue(T, child)
          m == IF role = "AXCheckBox"
               THEN IF desc = sMute THEN [meta EXCEPT !.muted = (value = sOne)]
                    ELSE IF desc = sSolo
                         THEN [meta EXCEPT !.solo = (value = sOne)]
                    ELSE IF contains(desc, sAufnahme) \/ contains(desc, sRecord)
                         THEN [meta EXCEPT !.recordEnabled = (value = sOne)]
                    ELSE meta
               ELSE IF role = "AXSlider" /\ desc = sVolume
                    THEN [meta EXCEPT !.volume =
                            IF swiftInt(value) # Null THEN swiftInt(value)
                            ELSE Num(0)]
                    ELSE meta
      IN  extractTrackMetaFrom(T, Tail(children), m)

extractTrackMeta(T, children) == extractTrackMetaFrom(T, children, NoMeta)

IsPluginButton(role, title) ==
    role = "AXButton" /\ title # <<>> /\ title # sM /\ title # sS /\ title # sR

(* the elements whose titles findPluginNames returns, in its order; the    *)
(* recursion carries no depth                                              *)
RECURSIVE findPluginElems(_, _)
findPluginElems(T, elements) ==
    IF elements = <<>> THEN <<>>
    ELSE LET element == Head(elements)
             own == IF IsPluginButton(getRole(T, element), getTitle(T, element))
                    THEN <<element>> ELSE <<>>
             children == getChildren(T, element)
             below == IF children # <<>> THEN findPluginElems(T, children)
                      ELSE <<>>
         IN  own \o below \o findPluginElems(T, Tail(elements))

findPluginNames(T, elements) ==
    LET es == findPluginElems(T, elements)
    IN  [k \in 1..Len(es) |-> getTitle(T, es[k])]

(* the index taken from the number in the label instead of the count *)
TrackInfo_NumberAsIndex(index, trackNumber, name, meta, plugins, elem, pluginElems) ==
    [index |-> IF trackNumber.t = "num" THEN trackNumber.n - 1 ELSE 0,
     trackNumber |-> trackNumber, name |-> name,
     muted |-> meta.muted, solo |-> meta.solo,
     recordEnabled |-> meta.recordEnabled, volume |-> meta.volume,
     plugins |-> plugins, elem |-> elem, pluginElems |-> pluginElems]

(* a TrackInfo; elem and pluginElems are the elements it was read from     *)
TrackInfo(index, trackNumber, name, meta, plugins, elem, pluginElems) ==
    [index |-> index, trackNumber |-> trackNumber, name |-> name,
     muted |-> meta.muted, solo |-> meta.solo,
     recordEnabled |-> meta.recordEnabled, volume |-> meta.volume,
     plugins |-> plugins, elem |-> elem, pluginElems |-> pluginElems]

IsTrackElement(T, element) ==
    getRole(T, element) = "AXLayoutItem"
        /\ isTrackDescription(getDescription(T, element))

RECURSIVE collectTrackElements(_, _, _, _, _)
collectTrackElements(T, elements, tracks, depth, maxDepth) ==
    IF ~WithinDepth(depth, maxDepth) \/ elements = <<>> THEN tracks
    ELSE
      LET element == Head(elements)
          desc == getDescription(T, element)
          children == getChildren(T, element)
          t1 == IF IsTrackElement(T, element)
                THEN Append(tracks,
                       TrackInfo(Len(tracks), extractTrackNumber(desc),
                                 extractTrackName(desc),
                                 extractTrackMeta(T, children),
                                 findPluginNames(T, children),
                                 element, findPluginElems(T, children)))
                ELSE tracks
          t2 == IF children # <<>>
                THEN collectTrackElements(T, children, t1, depth + 1, maxDepth)
                ELSE t1
      IN  collectTrackElements(T, Tail(elements), t2, depth, maxDepth)

extractTracks(T, spurenGroup) ==
    collectTrackElements(T, getChildren(T, spurenGroup), <<>>, 0, TrackMaxDepth)

(* the main window is the first window; 0 when there is none *)
mainWindow(T) == IF appWindows(T) = <<>> THEN 0 ELSE Head(appWindows(T))

(* the track container the helper works on, 0 when none is found *)
swiftContainer(T) ==
    IF mainWindow(T) = 0 THEN 0
    ELSE LET spurenGroup == findElementByDescription(T, mainWindow(T), sSpuren,
                                                     ContainerMaxDepth)
         IN  IF spurenGroup # 0 THEN spurenGroup
             ELSE findElementByDescription(T, mainWindow(T), sTracks,
                                           ContainerMaxDepth)

listTracksAX(T) ==
    IF swiftContainer(T) = 0
    THEN HelperRun(0, Stdout("json", <<>>), "", T, <<>>)
    ELSE HelperRun(0, Stdout("json", extractTracks(T, swiftContainer(T))), "",
                   T, <<>>)

-----------------------------------------------------------------------------
(* JXA fallback: the script of listTracksJXA *)

JXAContainerMaxDepth == 5
JXATrackMaxDepth == 12

(* element.groups(): the children that are groups *)
groups(T, element) ==
    SelectSeq(getChildren(T, element), LAMBDA g : getRole(T, g) = "AXGroup")

RECURSIVE findSpurenGroup(_, _, _)
RECURSIVE findSpurenAmong(_, _, _)

findSpurenGroup(T, element, depth) ==
    IF depth > JXAContainerMaxDepth THEN 0
    ELSE findSpurenAmong(T, groups(T, element), depth)

findSpurenAmong(T, gs, depth) ==
    IF gs = <<>> THEN 0
    ELSE LET g == Head(gs)
         IN  IF getDescription(T, g) = sSpuren \/ getDescription(T, g) = sTracks
             THEN g
             ELSE LET found == findSpurenGroup(T, g, depth + 1)
                  IN  IF found # 0 THEN found
                      ELSE findSpurenAmong(T, Tail(gs), depth)

jxaTrackName(desc) ==
    IF indexOf(desc, qLow9) # 0
    THEN trim(removeChars(dropFirst(desc, indexOf(desc, qLow9)),
                          {qLeft, qRight, qStraight}))
    ELSE IF indexOf(desc, qStraight) # 0
    THEN LET name == dropFirst(desc, indexOf(desc, qStraight))
             dqEnd == lastIndexOf(name, qStraight)
         IN  IF dqEnd # 0 THEN SubSeq(name, 1, dqEnd - 1) ELSE name
    ELSE desc

jxaTrackNumber(desc) ==
    LET parts == splitJS(desc)
    IN  IF Len(parts) >= 2 THEN parseInt(parts[2]) ELSE Num(-1)

RECURSIVE jxaTrackMetaFrom(_, _, _)
jxaTrackMetaFrom(T, children, meta) ==
    IF children = <<>> THEN meta
    ELSE
      LET child == Head(children)
          cr == getRole(T, child)
          cd == getDescription(T, child)
          cv == getValue(T, child)
          m == IF cr = "AXCheckBox"
               THEN IF cd = sMute
                    THEN [meta EXCEPT !.muted = looseEqualsOne(cv)]
                    ELSE IF cd = sSolo
                         THEN [meta EXCEPT !.solo = looseEqualsOne(cv)]
                    ELSE IF cd # <<>> /\ (contains(cd, sAufnahme)
                                            \/ contains(cd, sRecord))
                         THEN [meta EXCEPT !.recordEnabled = looseEqualsOne(cv)]
                    ELSE meta
               ELSE IF cr = "AXSlider" /\ cd = sVolume
                    THEN [meta EXCEPT !.volume =
                            IF parseInt(cv) # Null THEN parseInt(cv) ELSE Num(0)]
                    ELSE meta
      IN  jxaTrackMetaFrom(T, Tail(children), m)

IsJXATrackElement(T, el) ==
    /\ getRole(T, el) = "AXLayoutItem"
    /\ getDescription(T, el) # <<>>
    /\ \/ hasPrefix(getDescription(T, el), sSpurPrefix)
       \/ hasPrefix(getDescription(T, el), sTrackPrefix)

JXADepthExceeded(depth) == depth > JXATrackMaxDepth

RECURSIVE findTracks(_, _, _, _)
RECURSIVE findTracksAmong(_, _, _, _)

findTracks(T, element, depth, tracks) ==
    IF JXADepthExceeded(depth) THEN tracks
    ELSE findTracksAmong(T, getChildren(T, element), depth, tracks)

findTracksAmong(T, uiElems, depth, tracks) ==
    IF uiElems = <<>> THEN tracks
    ELSE
      LET el == Head(uiElems)
          desc == getDescription(T, el)
          t1 == IF IsJXATrackElement(T, el)
                THEN Append(tracks,
                       TrackInfo(Len(tracks), jxaTrackNumber(desc),
                                 jxaTrackName(desc),
                                 jxaTrackMetaFrom(T, getChildren(T, el), NoMeta),
                                 <<>>, el, <<>>))
                ELSE tracks
      IN  findTracksAmong(T, Tail(uiElems), depth,
                          findTracks(T, el, depth + 1, t1))

(* the track container the script works on, 0 when none is found *)
jxaContainer(T) ==
    IF mainWindow(T) = 0 THEN 0 ELSE findSpurenGroup(T, mainWindow(T), 0)

(* what the script hands to osascript as its result *)
listTracksScript(T) ==
    IF jxaContainer(T) = 0
    THEN HelperRun(0, Stdout("json", <<>>), "", T, <<>>)
    ELSE HelperRun(0, Stdout("json", findTracks(T, jxaContainer(T), 0, <<>>)),
                   "", T, <<>>)

-----------------------------------------------------------------------------
(* TypeScript bridge to the helper *)

Return(v) == [kind |-> "return", val |-> v]
Throw(m) == [kind |-> "throw", msg |-> m]

ProcEnv == {"run", "ENOENT", "timeout", "crash"}

(* "garbage": the process exits with 0 and its output is no JSON document *)
ListEnv == ProcEnv \cup {"garbage"}

(* runAxHelper: env is what happens to the spawned process; run is what    *)
(* the helper does when it runs to completion                              *)
runAxHelper(env, run) ==
    CASE env = "ENOENT" ->
           Throw(<<"Swift accessibility helper not found. Run: cd swift-helper && swift build -c release">>)
      [] env = "timeout" -> Throw(<<"Accessibility helper error: ", "timeout">>)
      [] env = "crash" -> Throw(<<"Accessibility helper error: ", "Command failed">>)
      [] env = "garbage" -> Return(Stdout("text", "garbage"))
      [] OTHER ->
           IF run.code # 0
           THEN Throw(<<"Accessibility helper error: ", "Command failed">>)
           ELSE Return(run.stdout)

Invocation(proc, cmd, env, ret) ==
    [proc |-> proc, cmd |-> cmd, env |-> env, ret |-> ret]

setPluginParameterTS(env, run) == runAxHelper(env, run)

JSONparse(stdout) ==
    IF stdout.kind = "json" THEN Return(stdout.val)
    ELSE Throw(<<"SyntaxError: Unexpected token">>)

getPluginParametersTS(env, run) ==
    LET r == runAxHelper(env, run)
    IN  IF r.kind = "throw" THEN r ELSE JSONparse(r.val)

(* runJXA: the error of execFile is passed on as it is *)
runJXA(env, run) ==
    CASE env = "ENOENT" -> Throw(<<"spawn osascript ENOENT">>)
      [] env = "timeout" -> Throw(<<"Command failed: osascript", " timeout">>)
      [] env = "crash" -> Throw(<<"Command failed: osascript">>)
      [] env = "garbage" -> Return(Stdout("text", "garbage"))
      [] OTHER -> IF run.code # 0 THEN Throw(<<"Command failed: osascript">>)
                  ELSE Return(run.stdout)

(* the parse error of the script's output passed on to the caller *)
listTracksJXA_ParseErrorThrown(env, run) ==
    LET r == runJXA(env, run)
    IN  IF r.kind = "throw" THEN r ELSE JSONparse(r.val)

listTracksJXA(env, run) ==
    LET r == runJXA(env, run)
    IN  IF r.kind = "throw" THEN r
        ELSE IF JSONparse(r.val).kind = "return" THEN JSONparse(r.val)
        ELSE Return(<<>>)

(* what the coordinator makes of the helper's answer *)
swiftAttempt(env, run) ==
    LET r == runAxHelper(env, run)
    IN  IF r.kind = "throw" THEN r ELSE JSONparse(r.val)

(* an empty array from the helper taken as the answer *)
AcceptsPrivileged_AnyArray(attempt) == attempt.kind = "return"

(* the helper's answer never taken: the fallback always runs *)
AcceptsPrivileged_Never(attempt) == FALSE

(* if (tracks.length > 0) return tracks *)
AcceptsPrivileged(attempt) == attempt.kind = "return" /\ Len(attempt.val) > 0

FallbackError(msg) ==
    Throw(<<"Could not list tracks. Ensure Logic Pro is open and Accessibility is granted. Details: ">> \o msg)

(* listTracks of the bridge: its outcome and the invocations it issued *)
listTracks(envS, runS, envJ, runJ) ==
    LET first == swiftAttempt(envS, runS)
        inv1 == Invocation("axhelper", "list-tracks", envS, first)
    IN  IF AcceptsPrivileged(first)
        THEN [ret |-> first, log |-> <<inv1>>]
        ELSE LET second == listTracksJXA(envJ, runJ)
                 inv2 == Invocation("osascript", "jxa", envJ, second)
             IN  [ret |-> IF second.kind = "return" THEN second
                          ELSE FallbackError(second.msg),
                  log |-> <<inv1, inv2>>]

-----------------------------------------------------------------------------
(* Tool results and the tool-call request handler *)

ToolResult(isError, fmt, a) == [isError |-> isError, fmt |-> fmt, a |-> a]

plugin_set_parameter(args, bridge) ==
    IF bridge.kind = "return"
    THEN Return(ToolResult(FALSE, "Parameter \"%1\" set to \"%2\". %3",
                           <<args.parameterName, args.value, bridge.val>>))
    ELSE Return(ToolResult(TRUE, "Failed to set parameter: %1", bridge.msg))

plugin_get_parameters(args, bridge) ==
    IF bridge.kind = "return"
    THEN Return(ToolResult(FALSE, "Plugin parameters (track %1, slot %2):\n%3",
                           <<args.trackIndex, args.slotIndex, bridge.val>>))
    ELSE Return(ToolResult(TRUE, "Failed to read plugin parameters: %1",
                           bridge.msg))

track_list(lt) ==
    IF lt.kind = "return"
    THEN Return(ToolResult(FALSE, "%1", <<lt.val>>))
    ELSE Return(ToolResult(TRUE,
           "Could not list tracks via Accessibility API. Ensure Logic Pro is open and Accessibility access is granted.",
           <<>>))

(* tracks.find((t) => t.index === trackIndex): 0 when there is none *)
findTrackIndex(tracks, trackIndex) ==
    LET hits == {k \in 1..Len(tracks) : tracks[k].index = trackIndex}
    IN  IF hits = {} THEN 0 ELSE CHOOSE k \in hits : \A j \in hits : k <= j

plugin_list_on_track(args, lt) ==
    IF lt.kind = "throw"
    THEN Return(ToolResult(TRUE, "Failed to list track plugins: %1", lt.msg))
    ELSE IF findTrackIndex(lt.val, args.trackIndex) = 0
    THEN Return(ToolResult(TRUE, "Track %1 not found.", <<args.trackIndex>>))
    ELSE LET track == lt.val[findTrackIndex(lt.val, args.trackIndex)]
         IN  Return(ToolResult(FALSE, "Plugins on track %1 (%2):\n%3",
                               <<args.trackIndex, track.name, track.plugins>>))

mixer_get_channel_strip(args, lt) ==
    IF lt.kind = "throw"
    THEN Return(ToolResult(TRUE, "Failed to get channel strip info: %1", lt.msg))
    ELSE IF findTrackIndex(lt.val, args.trackIndex) = 0
    THEN Return(ToolResult(TRUE, "Track %1 not found.", <<args.trackIndex>>))
    ELSE Return(ToolResult(FALSE, "Channel strip for track %1:\n%2",
                  <<args.trackIndex,
                    lt.val[findTrackIndex(lt.val, args.trackIndex)]>>))

(* osascript invocations of the AppleScript bridge *)
OsaEnv == {"ok", "fail", "timeout"}

runAppleScript(env) ==
    CASE env = "ok" -> Return("")
      [] env = "timeout" -> Throw(<<"Command failed: osascript", " timeout">>)
      [] OTHER -> Throw(<<"Command failed: osascript">>)

Osa(cmd, env) == Invocation("osascript", cmd, env, runAppleScript(env))

Handled(h, invs) == [h |-> h, log |-> invs]

(* track_create_audio, track_create_midi: activate, click the menu item,   *)
(* and on a failure of the click send the key command instead              *)
track_create(text, e1, e2, e3) ==
    IF runAppleScript(e1).kind = "throw"
    THEN Handled(runAppleScript(e1), <<Osa("activate", e1)>>)
    ELSE IF runAppleScript(e2).kind = "return"
    THEN Handled(Return(ToolResult(FALSE, text, <<>>)),
                 <<Osa("activate", e1), Osa("menu", e2)>>)
    ELSE IF runAppleScript(e3).kind = "throw"
    THEN Handled(runAppleScript(e3),
                 <<Osa("activate", e1), Osa("menu", e2), Osa("keystroke", e3)>>)
    ELSE Handled(Return(ToolResult(FALSE, text, <<>>)),
                 <<Osa("activate", e1), Osa("menu", e2), Osa("keystroke", e3)>>)

project_get_info(e1, e2) ==
    IF runAppleScript(e1).kind = "return"
    THEN Handled(Return(ToolResult(FALSE, "Current project: %1", <<"name">>)),
                 <<Osa("document-name", e1)>>)
    ELSE IF runAppleScript(e2).kind = "return"
    THEN Handled(Return(ToolResult(FALSE, "Current project: %1", <<"title">>)),
                 <<Osa("document-name", e1), Osa("window-title", e2)>>)
    ELSE Handled(Return(ToolResult(TRUE,
                   "Could not determine project info. Is Logic Pro running with a project open?",
                   <<>>)),
                 <<Osa("document-name", e1), Osa("window-title", e2)>>)

(* the handlers that activate Logic Pro and then run one script or key     *)
(* command, with no catch of their own                                     *)
ActivateTools ==
    {"track_select", "track_rename", "track_delete", "track_mute",
     "track_solo", "plugin_load", "plugin_load_preset", "project_save",
     "project_close", "project_bounce", "project_undo", "project_redo",
     "mixer_show", "mixer_load_channel_strip_setting"}

activate_then(name, e1, e2) ==
    IF runAppleScript(e1).kind = "throw"
    THEN Handled(runAppleScript(e1), <<Osa("activate", e1)>>)
    ELSE IF runAppleScript(e2).kind = "throw"
    THEN Handled(runAppleScript(e2), <<Osa("activate", e1), Osa(name, e2)>>)
    ELSE Handled(Return(ToolResult(FALSE, name, <<>>)),
                 <<Osa("activate", e1), Osa(name, e2)>>)

(* project_open: one script, no activation *)
project_open(e1) ==
    IF runAppleScript(e1).kind = "throw"
    THEN Handled(runAppleScript(e1), <<Osa("open", e1)>>)
    ELSE Handled(Return(ToolResult(FALSE, "Opened project: %1", <<>>)),
                 <<Osa("open", e1)>>)

(* the transport handlers: ensureLogicPro, then one script or key command  *)
TransportTools ==
    {"transport_play", "transport_stop", "transport_record",
     "transport_set_tempo", "transport_goto_beginning", "transport_cycle",
     "transport_metronome"}

transport_tool(name, e1, running, e2) ==
    IF runAppleScript(e1).kind = "throw"
    THEN Handled(runAppleScript(e1), <<Osa("is-running", e1)>>)
    ELSE IF ~running
    THEN Handled(Throw(<<"Logic Pro is not running. Please open Logic Pro and load a project first.">>),
                 <<Osa("is-running", e1)>>)
    ELSE IF runAppleScript(e2).kind = "throw"
    THEN Handled(runAppleScript(e2), <<Osa("is-running", e1), Osa(name, e2)>>)
    ELSE Handled(Return(ToolResult(FALSE, name, <<>>)),
                 <<Osa("is-running", e1), Osa(name, e2)>>)

(* plugin_list_installed: auval -l with a timeout, failures caught *)
plugin_list_installed(env) ==
    IF env = "ok"
    THEN Handled(Return(ToolResult(FALSE, "Found %1 Audio Unit plugins:\n%2", <<>>)),
                 <<Invocation("auval", "-l", env, Return(""))>>)
    ELSE Handled(Return(ToolResult(TRUE, "Failed to list plugins: %1",
                                   runAppleScript(env).msg)),
                 <<Invocation("auval", "-l", env, runAppleScript(env))>>)

(* checkAccessibility of the bridge *)
checkAccessibility(env, granted) ==
    LET r == runAxHelper(env, HelperRun(0, Stdout("text",
                 IF granted THEN "accessibility: granted"
                 ELSE "accessibility: denied"), "", <<>>, <<>>))
    IN  [ret |-> IF r.kind = "throw" THEN Return(FALSE)
                 ELSE Return(r.val.val = "accessibility: granted"),
         log |-> <<Invocation("axhelper", "check-access", env, r)>>]

-----------------------------------------------------------------------------
(* plugins.ts: the catalog printed by auval *)

LowerLetters ==
    {"a", "b", "c", "d", "e", "f", "g", "h", "i", "j", "k", "l", "m", "n",
     "o", "p", "q", "r", "s", "t", "u", "v", "w", "x", "y", "z"}

(* \w, \s and . of a JavaScript regular expression *)
isWord(c) == LowerChar(c) \in LowerLetters \/ c \in Digits \/ c = "_"
isSpace(c) == c \in {" ", "\t", "\n", "\r"}
isDot(c) == c \notin {"\n", "\r"}

(* String.prototype.trim *)
trimJS(s) ==
    LET keep == {i \in 1..Len(s) : ~isSpace(s[i])}
    IN  IF keep = {} THEN <<>>
        ELSE SubSeq(s, CHOOSE i \in keep : \A k \in keep : i <= k,
                       CHOOSE i \in keep : \A k \in keep : i >= k)

(* output.split("\n") *)
RECURSIVE splitLines(_)
splitLines(s) ==
    LET i == indexOf(s, "\n")
    IN  IF i = 0 THEN <<s>>
        ELSE <<SubSeq(s, 1, i - 1)>> \o splitLines(dropFirst(s, i))

(* the first position from i on that holds no whitespace *)
RECURSIVE skipSpace(_, _)
skipSpace(s, i) ==
    IF i <= Len(s) /\ isSpace(s[i]) THEN skipSpace(s, i + 1) ELSE i

(* \w{4} matches at i, and \s+ behind it *)
wordAt(s, i) ==
    /\ i + 4 <= Len(s)
    /\ \A k \in i..(i + 3) : isWord(s[k])
    /\ isSpace(s[i + 4])

(* line.match(/^\s*(\w{4})\s+(\w{4})\s+(\w{4})\s+-\s+(.+)$/): the empty   *)
(* sequence when the line does not match, else the record pushed.  \s+ in  *)
(* front of the name is greedy and gives characters back only when nothing *)
(* is left for (.+)                                                        *)
matchLine(line) ==
    LET p1 == skipSpace(line, 1)
        p2 == skipSpace(line, p1 + 4)
        p3 == skipSpace(line, p2 + 4)
        pd == skipSpace(line, p3 + 4)
        ks == {k \in 1..(Len(line) - pd - 1) :
                  /\ \A j \in (pd + 1)..(pd + k) : isSpace(line[j])
                  /\ \A j \in (pd + k + 1)..Len(line) : isDot(line[j])}
        kmax == CHOOSE k \in ks : \A j \in ks : j <= k
    IN  IF /\ wordAt(line, p1)
           /\ wordAt(line, p2)
           /\ wordAt(line, p3)
           /\ pd <= Len(line)
           /\ line[pd] = "-"
           /\ ks # {}
        THEN <<[type |-> SubSeq(line, p1, p1 + 3),
                subtype |-> SubSeq(line, p2, p2 + 3),
                manufacturer |-> SubSeq(line, p3, p3 + 3),
                name |-> trimJS(SubSeq(line, pd + kmax + 1, Len(line)))]>>
        ELSE <<>>

RECURSIVE matchLines(_)
matchLines(lines) ==
    IF lines = <<>> THEN <<>>
    ELSE matchLine(Head(lines)) \o matchLines(Tail(lines))

parseAuvalOutput(stdout) == matchLines(splitLines(stdout))

-----------------------------------------------------------------------------
(* midi-bridge.ts *)

(* a & mask of JavaScript on the two's complement of the operands, bit by  *)
(* bit; the masks used have no bit above the 7th, so the low 30 bits of    *)
(* the left operand stand for its 32                                       *)
RECURSIVE BitAndNat(_, _)
BitAndNat(a, b) ==
    IF a = 0 \/ b = 0 THEN 0
    ELSE (IF a % 2 = 1 /\ b % 2 = 1 THEN 1 ELSE 0)
           + 2 * BitAndNat(a \div 2, b \div 2)

BitAnd(a, mask) == BitAndNat(a % 1073741824, mask)

(* the bridge state: b.output, b.ports, b.sent *)
Bridge(o, ps, ms) == [output |-> o, ports |-> ps, sent |-> ms]

(* an Output object: the state of its port, whether the port was ever     *)
(* opened, and the closePort calls on it                                   *)
NewOutput(state) ==
    [state |-> state, opened |-> state = "open", closes |-> 0]

(* how the native module fares when a port is opened *)
OpenOutcomes == {"ok", "constructor throws", "openVirtualPort throws"}

(* openMidiPort: output is assigned before openVirtualPort is called *)
openMidiPort(b, env) ==
    IF b.output # 0 THEN [b |-> b, ret |-> Return("void")]
    ELSE IF env = "constructor throws"
    THEN [b |-> b, ret |-> Throw(<<"new midi.Output() failed">>)]
    ELSE LET ps == Append(b.ports,
                          NewOutput(IF env = "ok" THEN "open" ELSE "none"))
         IN  [b |-> Bridge(Len(ps), ps, b.sent),
              ret |-> IF env = "ok" THEN Return("void")
                      ELSE Throw(<<"openVirtualPort failed">>)]

closeMidiPort(b) ==
    IF b.output = 0 THEN b
    ELSE Bridge(0, [b.ports EXCEPT ![b.output].state = "closed",
                                   ![b.output].closes = @ + 1],
                b.sent)

isMidiPortOpen(b) == b.output # 0

PortNotOpen == <<"MIDI port not open">>

(* output.sendMessage(bytes), by: the tool call that sent it (0: none) *)
sendMessage(b, bytes, by) ==
    [b |-> Bridge(b.output, b.ports,
                  Append(b.sent, [bytes |-> bytes, to |-> b.output, by |-> by])),
     ret |-> Return("void")]

(* the note number sent as it is *)
sendNoteOn_Unmasked(b, channel, note, velocity, by) ==
    IF b.output = 0 THEN [b |-> b, ret |-> Throw(PortNotOpen)]
    ELSE sendMessage(b, <<144 + BitAnd(channel, 15), note,
                          BitAnd(velocity, 127)>>, by)

sendNoteOn(b, channel, note, velocity, by) ==
    IF b.output = 0 THEN [b |-> b, ret |-> Throw(PortNotOpen)]
    ELSE sendMessage(b, <<144 + BitAnd(channel, 15), BitAnd(note, 127),
                          BitAnd(velocity, 127)>>, by)

sendNoteOff(b, channel, note, by) ==
    IF b.output = 0 THEN [b |-> b, ret |-> Throw(PortNotOpen)]
    ELSE sendMessage(b, <<128 + BitAnd(channel, 15), BitAnd(note, 127), 0>>,
                     by)

sendCC(b, channel, controller, value, by) ==
    IF b.output = 0 THEN [b |-> b, ret |-> Throw(PortNotOpen)]
    ELSE sendMessage(b, <<176 + BitAnd(channel, 15), BitAnd(controller, 127),
                          BitAnd(value, 127)>>, by)

sendProgramChange(b, channel, program, by) ==
    IF b.output = 0 THEN [b |-> b, ret |-> Throw(PortNotOpen)]
    ELSE sendMessage(b, <<192 + BitAnd(channel, 15), BitAnd(program, 127)>>,
                     by)

(* the MIDI handlers: ensureMidiPort, then the messages are sent *)
MidiTools ==
    {"midi_send_notes", "midi_send_chord", "midi_send_cc", "midi_send_pattern"}

midi_tool(name, portOpen) ==
    IF ~portOpen
    THEN Handled(Throw(<<"MIDI port is not open. The server should have opened it on startup.">>),
                 <<>>)
    ELSE Handled(Return(ToolResult(FALSE, name, <<>>)), <<>>)

(* A tool call in flight: pc is where the handler is suspended ("delay"   *)
(* before the note-on of event i, "hold" between its note-on and its       *)
(* note-off), "done" once it has settled as h, "exited" when the process   *)
(* exited under it                                                         *)
Task(id, tool, args) ==
    [id |-> id, tool |-> tool, args |-> args, pc |-> "start", i |-> 0,
     h |-> [kind |-> "none"]]

Has(e, field) == field \in DOMAIN e

(* event.channel ?? 0 and args.bpm ?? 120 *)
channelOf(e) == IF Has(e, "channel") THEN e.channel ELSE 0
bpmOf(args) == IF Has(args, "bpm") THEN args.bpm ELSE 120

(* the delay before an event: sendNotes takes event.delay ?? 0, sendPattern *)
(* turns beats into milliseconds                                            *)
delayOf(t, e) ==
    IF t.tool = "midi_send_pattern"
    THEN IF Has(e, "delay") /\ e.delay # 0
         THEN (e.delay * (60000 \div bpmOf(t.args))) \div 4
         ELSE 0
    ELSE IF Has(e, "delay") THEN e.delay ELSE 0

ensureMidiPort(b) ==
    IF ~isMidiPortOpen(b)
    THEN Throw(<<"MIDI port is not open. The server should have opened it on startup.">>)
    ELSE Return("void")

Fail(b, t, msg) == [b |-> b, t |-> [t EXCEPT !.pc = "done", !.h = Throw(msg)]]

Finish(b, t, fmt, a) ==
    [b |-> b,
     t |-> [t EXCEPT !.pc = "done", !.h = Return(ToolResult(FALSE, fmt, a))]]

(* sendNoteOn for event i, then the handler waits in sleep(dur) *)
noteOnStep(b, t, i) ==
    LET e == t.args.notes[i]
        r == sendNoteOn(b, channelOf(e), e.note, e.velocity, t.id)
    IN  IF r.ret.kind = "throw" THEN Fail(b, t, r.ret.msg)
        ELSE [b |-> r.b, t |-> [t EXCEPT !.pc = "hold", !.i = i]]

(* the loop of sendNotes and sendPattern from event i to its next await *)
startEvent(b, t, i) ==
    IF i > Len(t.args.notes)
    THEN IF t.tool = "midi_send_pattern"
         THEN Finish(b, t, "Sent %1 note pattern at %2 BPM.",
                     <<Len(t.args.notes), bpmOf(t.args)>>)
         ELSE Finish(b, t, "Sent %1 MIDI note(s) to Logic Pro.",
                     <<Len(t.args.notes)>>)
    ELSE IF delayOf(t, t.args.notes[i]) > 0
         THEN [b |-> b, t |-> [t EXCEPT !.pc = "delay", !.i = i]]
         ELSE noteOnStep(b, t, i)

(* the next note-on sent before the note-off of the note that is held *)
holdResume_NoteOffLater(b, t) ==
    LET e == t.args.notes[t.i]
        n == startEvent(b, t, t.i + 1)
        r == sendNoteOff(n.b, channelOf(e), e.note, t.id)
    IN  IF r.ret.kind = "throw" THEN Fail(b, t, r.ret.msg)
        ELSE [b |-> r.b, t |-> n.t]

(* sleep(dur) is over: sendNoteOff, then the next event *)
holdResume(b, t) ==
    LET e == t.args.notes[t.i]
        r == sendNoteOff(b, channelOf(e), e.note, t.id)
    IN  IF r.ret.kind = "throw" THEN Fail(b, t, r.ret.msg)
        ELSE startEvent(r.b, t, t.i + 1)

(* sendNotes and sendPattern up to the first await *)
sendNotes(b, t) ==
    IF b.output = 0 THEN Fail(b, t, PortNotOpen) ELSE startEvent(b, t, 1)

(* the handlers of midi_send_notes and midi_send_pattern *)
midi_send_notes(b, t) ==
    LET c == ensureMidiPort(b)
    IN  IF c.kind = "throw" THEN Fail(b, t, c.msg) ELSE sendNotes(b, t)

(* the note-ons of a chord from note k on *)
RECURSIVE chordOn(_, _, _)
chordOn(b, t, k) ==
    IF k > Len(t.args.notes) THEN [b |-> b, t |-> [t EXCEPT !.pc = "hold"]]
    ELSE LET r == sendNoteOn(b, channelOf(t.args), t.args.notes[k],
                             IF Has(t.args, "velocity") THEN t.args.velocity
                             ELSE 80, t.id)
         IN  IF r.ret.kind = "throw" THEN Fail(r.b, t, r.ret.msg)
             ELSE chordOn(r.b, t, k + 1)

(* the note-offs of a chord from note k on *)
RECURSIVE chordOff(_, _, _)
chordOff(b, t, k) ==
    IF k > Len(t.args.notes)
    THEN Finish(b, t, "Sent chord [%1] with velocity %2 for %3ms.",
                <<t.args.notes,
                  IF Has(t.args, "velocity") THEN t.args.velocity ELSE 80,
                  IF Has(t.args, "duration") THEN t.args.duration ELSE 1000>>)
    ELSE LET r == sendNoteOff(b, channelOf(t.args), t.args.notes[k], t.id)
         IN  IF r.ret.kind = "throw" THEN Fail(r.b, t, r.ret.msg)
             ELSE chordOff(r.b, t, k + 1)

midi_send_chord(b, t) ==
    LET c == ensureMidiPort(b)
    IN  IF c.kind = "throw" THEN Fail(b, t, c.msg) ELSE chordOn(b, t, 1)

midi_send_cc(b, t) ==
    LET c == ensureMidiPort(b)
        r == sendCC(b, channelOf(t.args), t.args.controller, t.args.value,
                    t.id)
    IN  IF c.kind = "throw" THEN Fail(b, t, c.msg)
        ELSE IF r.ret.kind = "throw" THEN Fail(b, t, r.ret.msg)
        ELSE Finish(r.b, t, "Sent CC%1 = %2 on channel %3.",
                    <<t.args.controller, t.args.value, channelOf(t.args)>>)

(* a handler from its call to its first await *)
midiHandler(b, t) ==
    CASE t.tool = "midi_send_chord" -> midi_send_chord(b, t)
      [] t.tool = "midi_send_cc" -> midi_send_cc(b, t)
      [] OTHER -> midi_send_notes(b, t)

(* a suspended handler from its timer to its next await *)
midiResume(b, t) ==
    IF t.pc = "delay" THEN noteOnStep(b, t, t.i)
    ELSE IF t.tool = "midi_send_chord" THEN chordOff(b, t, 1)
    ELSE holdResume(b, t)

(* a registry of 35 tools in which one name is taken twice *)
ALL_TOOLS_Duplicate ==
    <<"transport_play", "transport_stop", "transport_record",
      "transport_set_tempo", "transport_goto_beginning", "transport_cycle",
      "transport_metronome",
      "track_list", "track_create_audio", "track_create_midi", "track_select",
      "track_rename", "track_delete", "track_mute", "track_solo",
      "plugin_list_installed", "plugin_list_on_track", "plugin_load",
      "plugin_get_parameters", "plugin_set_parameter", "plugin_load_preset",
      "midi_send_notes", "midi_send_chord", "midi_send_cc", "midi_send_pattern",
      "project_get_info", "project_save", "project_open", "project_close",
      "project_bounce", "project_undo", "project_undo",
      "mixer_show", "mixer_get_channel_strip",
      "mixer_load_channel_strip_setting">>

ALL_TOOLS ==
    <<"transport_play", "transport_stop", "transport_record",
      "transport_set_tempo", "transport_goto_beginning", "transport_cycle",
      "transport_metronome",
      "track_list", "track_create_audio", "track_create_midi", "track_select",
      "track_rename", "track_delete", "track_mute", "track_solo",
      "plugin_list_installed", "plugin_list_on_track", "plugin_load",
      "plugin_get_parameters", "plugin_set_parameter", "plugin_load_preset",
      "midi_send_notes", "midi_send_chord", "midi_send_cc", "midi_send_pattern",
      "project_get_info", "project_save", "project_open", "project_close",
      "project_bounce", "project_undo", "project_redo",
      "mixer_show", "mixer_get_channel_strip",
      "mixer_load_channel_strip_setting">>

toolMap == {ALL_TOOLS[i] : i \in 1..Len(ALL_TOOLS)}

(* toolMap.get(name): the place in ALL_TOOLS of the tool kept under the   *)
(* name, 0 for undefined; a later entry of the same name replaces an       *)
(* earlier one                                                             *)
toolMapGet(name) ==
    LET hits == {i \in DOMAIN ALL_TOOLS : ALL_TOOLS[i] = name}
    IN  IF hits = {} THEN 0 ELSE CHOOSE i \in hits : \A k \in hits : k <= i

(* the handler awaited outside the try block *)
CallToolRequest_NoCatch(name, h) ==
    IF name \notin toolMap
    THEN Return(ToolResult(TRUE, "Unknown tool: %1", <<name>>))
    ELSE h

(* The CallToolRequestSchema handler: h is what the tool's handler did *)
CallToolRequest(name, h) ==
    IF name \notin toolMap
    THEN Return(ToolResult(TRUE, "Unknown tool: %1", <<name>>))
    ELSE IF h.kind = "throw"
         THEN Return(ToolResult(TRUE, "Error: %1", h.msg))
         ELSE h

-----------------------------------------------------------------------------
(* Host UI trees the requests are served against *)

WindowElem == Elem(0, "AXWindow", <<>>, <<>>, <<>>)
Filler(d, role) == Elem(d, role, <<>>, <<>>, <<>>)
Chain(d, n, role) == [k \in 1..n |-> Filler(d + k - 1, role)]

(* a tree is built slot by slot: each slot hangs one element, below `fill` *)
(* plain groups, under the last element ("child"), directly under the last *)
(* window ("top") or under a new window ("window")                         *)
Attach == {"child", "top", "window"}

RECURSIVE BuildTree(_, _)
BuildTree(T, slots) ==
    IF slots = <<>> THEN T
    ELSE LET s == Head(slots)
             T1 == IF s.att = "window" THEN Append(T, WindowElem) ELSE T
             base == IF s.att = "child" THEN T[Len(T)].d + 1 ELSE 1
             T2 == T1 \o Chain(base, s.fill, "AXGroup")
                      \o <<[s.elem EXCEPT !.d = base + s.fill]>>
         IN  BuildTree(T2, Tail(slots))

SeqsUpTo(S, n) == UNION {[1..k -> S] : k \in 0..n}

ParamKinds == {"slider", "text", "popup", "sliderMode"}
ParamFill == {0, 7}

ParamElem(d, kind) ==
    CASE kind = "slider" -> Elem(d, "AXSlider", sGain, <<>>, sZero)
      [] kind = "text" -> Elem(d, "AXTextField", <<>>, sGain, <<>>)
      [] kind = "popup" -> Elem(d, "AXPopUpButton", sGain, <<>>, sZero)
      [] kind = "sliderMode" -> Elem(d, "AXSlider", sGainMode, <<>>, sZero)

ParamSlots ==
    [att : Attach, fill : ParamFill, elem : {ParamElem(0, k) : k \in ParamKinds}]

ParamSlotTrees ==
    {BuildTree(<<WindowElem>>, slots) :
        slots \in SeqsUpTo(ParamSlots, MaxParamElems)}

(* controls that have neither a description nor a title *)
UnnamedTrees ==
    {<<WindowElem, Elem(1, "AXSlider", <<>>, <<>>, sZero)>>,
     <<WindowElem, Elem(1, "AXPopUpButton", <<>>, <<>>, sAbc),
       ParamElem(1, "text")>>,
     <<WindowElem, ParamElem(1, "slider"), Filler(1, "AXGroup"),
       Elem(2, "AXTextField", <<>>, <<>>, sHalf)>>}

ParamTrees == ParamSlotTrees \cup UnnamedTrees

ParamNames == {sGain, sGainLower}
ParamValues == {sHalf, sAbc}
TrackIndexes == {0, 1}
(* the trackIndex and slotIndex of a request *)
IndexPairs == {<<0, 0>>, <<0, 1>>, <<1, 0>>}

(* Trees with a track container *)

lblA == <<"T", "r", "a", "c", "k", " ", "1", " ", "\"", "A", "\"">>
lblB == <<"S", "p", "u", "r", " ", "2", " ", "U+201E", "B", "U+201C">>
lblC == <<"T", "r", "a", "c", "k", " ", "3", " ", "C">>

TrackLabels == {lblA, lblB, lblC}

Container(d, desc) == Elem(d, "AXGroup", desc, <<>>, <<>>)
TrackElem(d, label) == Elem(d, "AXLayoutItem", label, <<>>, <<>>)
MuteBox(d, value) == Elem(d, "AXCheckBox", sMute, <<>>, value)
VolumeSlider(d, value) == Elem(d, "AXSlider", sVolume, <<>>, value)
Button(d, title) == Elem(d, "AXButton", <<>>, title, <<>>)

(* one track row at depth d: the track element, its controls, its plugin   *)
(* button below pfill plain groups                                         *)
Row(d, r) ==
    <<TrackElem(d, r.label)>>
      \o (IF r.ctl = "muteVol"
          THEN <<MuteBox(d + 1, sOne), VolumeSlider(d + 1, s64)>> ELSE <<>>)
      \o (IF r.plugin = "none" THEN <<>>
          ELSE Chain(d + 1, r.pfill, "AXGroup")
                 \o <<Button(d + 1 + r.pfill, sEQ)>>)

RECURSIVE Rows(_, _)
Rows(d, rs) == IF rs = <<>> THEN <<>> ELSE Row(d, Head(rs)) \o Rows(d, Tail(rs))

(* window, cfill elements of role crole, the container, tfill groups, rows *)
TrackTree(cfill, crole, cdesc, tfill, rs) ==
    <<WindowElem>> \o Chain(1, cfill, crole)
      \o <<Container(cfill + 1, cdesc)>>
      \o Chain(cfill + 2, tfill, "AXGroup")
      \o Rows(cfill + 2 + tfill, rs)

PlainRow == [label |-> lblA, ctl |-> "none", plugin |-> "none", pfill |-> 0]

(* the container and the rows at the depths around the search bounds *)
LocateTrees ==
    {TrackTree(cfill, crole, cdesc, tfill, <<PlainRow>>) :
        cfill \in {0, 4, 5}, crole \in {"AXGroup", "AXScrollArea"},
        cdesc \in {sTracks, sSpuren}, tfill \in {0, 11, 12}}

(* a plugin button far below its track; no container; no window *)
SpecialTrees ==
    {TrackTree(0, "AXGroup", sTracks, 0,
               <<[label |-> lblA, ctl |-> "muteVol", plugin |-> "EQ",
                  pfill |-> pf]>>) : pf \in {11, 12}}
      \cup {<<WindowElem>>, <<>>,
            TrackTree(0, "AXGroup", sTracks, 0, <<>>)}

MaxTracks == 2

RowSpecs ==
    [label : TrackLabels, ctl : {"none", "muteVol"}, plugin : {"none", "EQ"},
     pfill : {0}]

RowTrees ==
    {TrackTree(0, "AXGroup", sTracks, 0, rs) : rs \in SeqsUpTo(RowSpecs, MaxTracks)}

(* labels of the documented form: prefix, number, quoted name *)
QuotePairs == {<<qLeft, qRight>>, <<qStraight, qStraight>>, <<qLow9, qLeft>>}
TrackPrefixes == {sSpurPrefix, sTrackPrefix}
TrackNumbers == {<<"1">>, <<"1", "2">>}
TrackNames == {<<"A">>, <<"M", "y", " ", "M", "i", "c">>}

MakeLabel(prefix, n, q, name) == prefix \o n \o <<" ", q[1]>> \o name \o <<q[2]>>

QuotedLabels ==
    {MakeLabel(p, n, q, nm) :
        p \in TrackPrefixes, n \in TrackNumbers, q \in QuotePairs,
        nm \in TrackNames}

(* labels whose second token is no integer, is empty or is missing *)
OddLabels ==
    {<<"T", "r", "a", "c", "k", " ", "4", "a", " ", "\"", "A", "\"">>,
     <<"T", "r", "a", "c", "k", " ", "x", " ", "\"", "A", "\"">>,
     <<"T", "r", "a", "c", "k", " ", "1", ".", "5", " ", "\"", "A", "\"">>,
     <<"T", "r", "a", "c", "k", " ", " ", "1", " ", "\"", "A", "\"">>,
     <<"S", "p", "u", "r", " ", "-", "3", " ", "U+201E", "B", "U+201C">>,
     <<"T", "r", "a", "c", "k", " ">>}

LabelTrees ==
    {TrackTree(0, "AXGroup", sTracks, 0, <<[PlainRow EXCEPT !.label = l]>>) :
        l \in QuotedLabels \cup OddLabels}

(* track elements inside the subtree of a track element *)
NestedTrees ==
    {<<WindowElem, Container(1, sTracks), TrackElem(2, lblA),
       TrackElem(3, lblB), TrackElem(2, lblC)>>,
     <<WindowElem, Container(1, sTracks), TrackElem(2, lblA),
       Filler(3, "AXGroup"), TrackElem(4, lblB), MuteBox(5, sOne),
       TrackElem(5, lblC)>>}

(* one track with its Mute, Solo and Volume controls: absent, as children  *)
(* with a value, or one level further down ("deep")                        *)
MuteSpecs == {"none", "0", "1", "deep"}
VolumeSpecs == {"none", "64", "64.5", "abc", "deep"}

ControlsOf(d, mute, solo, vol) ==
    (CASE mute = "none" -> <<>>
       [] mute = "deep" -> <<Filler(d, "AXGroup"), MuteBox(d + 1, sOne)>>
       [] mute = "0" -> <<MuteBox(d, sZero)>>
       [] OTHER -> <<MuteBox(d, sOne)>>)
      \o (IF solo THEN <<Elem(d, "AXCheckBox", sSolo, <<>>, sOne)>> ELSE <<>>)
      \o (CASE vol = "none" -> <<>>
             [] vol = "deep" -> <<Filler(d, "AXGroup"), VolumeSlider(d + 1, s64)>>
             [] vol = "64" -> <<VolumeSlider(d, s64)>>
             [] vol = "64.5" -> <<VolumeSlider(d, <<"6", "4", ".", "5">>)>>
             [] OTHER -> <<VolumeSlider(d, sAbc)>>)

ControlTrees ==
    {<<WindowElem, Container(1, sTracks), TrackElem(2, lblA)>>
        \o ControlsOf(3, m, so, v) :
        m \in MuteSpecs, so \in BOOLEAN, v \in VolumeSpecs}

(* three tracks, the second one muted with volume 64 *)
ThreeTrackTree ==
    TrackTree(0, "AXGroup", sTracks, 0,
              <<PlainRow,
                [label |-> lblB, ctl |-> "muteVol", plugin |-> "none", pfill |-> 0],
                [PlainRow EXCEPT !.label = lblC]>>)

(* several elements that carry a container description *)
DuplicateTrees ==
    {<<WindowElem, Filler(1, "AXGroup"), Container(2, cd), TrackElem(3, lblA),
       Container(1, cd), TrackElem(2, lblC)>> : cd \in {sTracks, sSpuren}}
      \cup {<<WindowElem, Container(1, sTracks), TrackElem(2, lblA),
              Container(1, sTracks), TrackElem(2, lblC)>>,
            <<WindowElem, Container(1, sTracks), TrackElem(2, lblA),
              Container(1, sSpuren), TrackElem(2, lblC)>>}

(* a track with the buttons M, S, R, an untitled button and plugin buttons *)
ButtonTrees ==
    {<<WindowElem, Container(1, sTracks), TrackElem(2, lblA),
       Button(3, sM), Button(3, sS), Button(3, sR), Button(3, <<>>),
       Button(3, sEQ), Filler(3, "AXGroup"), Button(4, sGain),
       TrackElem(2, lblC), Button(3, sR)>>}

TrackTrees ==
    LocateTrees \cup SpecialTrees \cup RowTrees \cup LabelTrees
      \cup NestedTrees \cup ControlTrees \cup {ThreeTrackTree}
      \cup DuplicateTrees \cup ButtonTrees

(* the trees the coordinator and the tool handlers are exercised on *)
CoordTrees ==
    LocateTrees \cup SpecialTrees
      \cup {TrackTree(0, "AXGroup", sTracks, 0, <<r>>) : r \in RowSpecs}

-----------------------------------------------------------------------------
(* Requests: one request is served against the host tree of Init *)

NoCall == [op |-> "none"]
NoOut == [kind |-> "none"]

InitCommon ==
    /\ pre = <<>>
    /\ call = NoCall
    /\ log = <<>>
    /\ written = <<>>
    /\ out = NoOut
    /\ hout = NoOut
    /\ result = NoOut
    /\ output = 0
    /\ ports = <<>>
    /\ sent = <<>>
    /\ tasks = <<>>

(* the request handler serving tool `name` whose handler did h *)
(* invs: the processes it spawned; w: the elements the helper wrote to    *)
Serve(name, args, h, invs, bridge, tree, w) ==
    /\ call' = [op |-> name, args |-> args]
    /\ pre' = ui
    /\ ui' = tree
    /\ log' = invs
    /\ written' = w
    /\ out' = bridge
    /\ hout' = h
    /\ result' = CallToolRequest(name, h)
    /\ UNCHANGED midiVars

(* tools/call plugin_set_parameter, the helper process faring as in Envs *)
SetParameterCallIn(Envs) ==
    /\ call.op = "none"
    /\ \E pn \in ParamNames, v \in ParamValues, ix \in IndexPairs,
          env \in Envs, accept \in BOOLEAN :
          \E run \in {setPluginParameter(ui, ix[1], ix[2], pn, v, accept)} :
          LET args == [trackIndex |-> ix[1], slotIndex |-> ix[2],
                       parameterName |-> pn, value |-> v]
              bridge == setPluginParameterTS(env, run)
          IN  Serve("plugin_set_parameter", args,
                    plugin_set_parameter(args, bridge),
                    <<Invocation("axhelper", "set-param", env, bridge)>>,
                    bridge, IF env = "run" THEN run.tree ELSE ui,
                    IF env = "run" THEN run.writes ELSE <<>>)

(* tools/call plugin_get_parameters *)
GetParametersCallIn(Envs) ==
    /\ call.op = "none"
    /\ \E ix \in IndexPairs, env \in Envs :
          \E run \in {getPluginParametersAX(ui, ix[1], ix[2])} :
          LET args == [trackIndex |-> ix[1], slotIndex |-> ix[2]]
              bridge == getPluginParametersTS(env, run)
          IN  Serve("plugin_get_parameters", args,
                    plugin_get_parameters(args, bridge),
                    <<Invocation("axhelper", "get-params", env, bridge)>>,
                    bridge, ui, <<>>)

InitParams ==
    /\ ui \in ParamTrees
    /\ InitCommon

(* the helper runs to completion, over every tree of ParamTrees *)
SetParameterCall == SetParameterCallIn({"run"})
GetParametersCall == GetParametersCallIn({"run"})

NextParams == SetParameterCall \/ GetParametersCall

SpecParams == InitParams /\ [][NextParams]_vars

-----------------------------------------------------------------------------
(* The two extraction pipelines, each run once against the same tree *)

NoRun == [ran |-> FALSE, tracks |-> <<>>]

InitTracks ==
    /\ ui \in TrackTrees
    /\ InitCommon

(* the helper's list-tracks: out.swift is the array it prints *)
SwiftListTracks ==
    /\ call.op \in {"none", "jxa"}
    /\ call' = [op |-> IF call.op = "none" THEN "swift" ELSE "both"]
    /\ out' = [kind |-> "tracks",
               swift |-> [ran |-> TRUE, tracks |-> listTracksAX(ui).stdout.val],
               jxa |-> IF call.op = "none" THEN NoRun ELSE out.jxa]
    /\ UNCHANGED <<ui, pre, log, written, hout, result, midiVars>>

(* the JXA script: out.jxa is the array it prints *)
JXAListTracks ==
    /\ call.op \in {"none", "swift"}
    /\ call' = [op |-> IF call.op = "none" THEN "jxa" ELSE "both"]
    /\ out' = [kind |-> "tracks",
               swift |-> IF call.op = "none" THEN NoRun ELSE out.swift,
               jxa |-> [ran |-> TRUE,
                        tracks |-> listTracksScript(ui).stdout.val]]
    /\ UNCHANGED <<ui, pre, log, written, hout, result, midiVars>>

NextTracks == SwiftListTracks \/ JXAListTracks

SpecTracks == InitTracks /\ [][NextTracks]_vars

-----------------------------------------------------------------------------
(* Tool calls with the spawned processes faring in every way *)

ListTools == {"track_list", "plugin_list_on_track", "mixer_get_channel_strip"}

list_tool(name, args, lt) ==
    CASE name = "track_list" -> track_list(lt)
      [] name = "plugin_list_on_track" -> plugin_list_on_track(args, lt)
      [] OTHER -> mixer_get_channel_strip(args, lt)

InitTools ==
    /\ ui \in CoordTrees
    /\ InitCommon

(* tools/call of a tool that lists the tracks through the coordinator *)
ListTracksCall ==
    /\ call.op = "none"
    /\ \E name \in ListTools, envS \in ListEnv, envJ \in ListEnv :
          \E lt \in {listTracks(envS, listTracksAX(ui), envJ,
                                 listTracksScript(ui))} :
          LET args == [trackIndex |-> 0]
          IN  Serve(name, args, list_tool(name, args, lt.ret), lt.log, lt.ret,
                    ui, <<>>)

CreateTrackCall ==
    /\ call.op = "none"
    /\ \E name \in {"track_create_audio", "track_create_midi"},
          e1 \in OsaEnv, e2 \in OsaEnv, e3 \in OsaEnv :
          LET r == track_create(IF name = "track_create_audio"
                                THEN "Audio track created."
                                ELSE "Software instrument track created.",
                                e1, e2, e3)
          IN  Serve(name, <<>>, r.h, r.log, NoOut, ui, <<>>)

ProjectInfoCall ==
    /\ call.op = "none"
    /\ \E e1 \in OsaEnv, e2 \in OsaEnv :
          LET r == project_get_info(e1, e2)
          IN  Serve("project_get_info", <<>>, r.h, r.log, NoOut, ui, <<>>)

ActivateToolCall ==
    /\ call.op = "none"
    /\ \E name \in ActivateTools, e1 \in OsaEnv, e2 \in OsaEnv :
          LET r == activate_then(name, e1, e2)
          IN  Serve(name, <<>>, r.h, r.log, NoOut, ui, <<>>)

ProjectOpenCall ==
    /\ call.op = "none"
    /\ \E e1 \in OsaEnv :
          LET r == project_open(e1)
          IN  Serve("project_open", <<>>, r.h, r.log, NoOut, ui, <<>>)

TransportCall ==
    /\ call.op = "none"
    /\ \E name \in TransportTools, e1 \in OsaEnv, running \in BOOLEAN,
          e2 \in OsaEnv :
          LET r == transport_tool(name, e1, running, e2)
          IN  Serve(name, <<>>, r.h, r.log, NoOut, ui, <<>>)

ListInstalledCall ==
    /\ call.op = "none"
    /\ \E env \in OsaEnv :
          LET r == plugin_list_installed(env)
          IN  Serve("plugin_list_installed", <<>>, r.h, r.log, NoOut, ui, <<>>)

MidiToolCall ==
    /\ call.op = "none"
    /\ \E name \in MidiTools, portOpen \in BOOLEAN :
          LET r == midi_tool(name, portOpen)
          IN  Serve(name, <<>>, r.h, r.log, NoOut, ui, <<>>)

UnknownToolCall ==
    /\ call.op = "none"
    /\ \E name \in {"track_lst", ""} :
          Serve(name, <<>>, NoOut, <<>>, NoOut, ui, <<>>)

(* the bridge function checkAccessibility, called directly *)
CheckAccessibilityCall ==
    /\ call.op = "none"
    /\ \E env \in ProcEnv, granted \in BOOLEAN :
          LET r == checkAccessibility(env, granted)
          IN  /\ call' = [op |-> "checkAccessibility", args |-> <<>>]
              /\ out' = r.ret
              /\ log' = r.log
              /\ pre' = ui
              /\ UNCHANGED <<ui, written, hout, result, midiVars>>

SetParameterAnyEnv == SetParameterCallIn(ProcEnv)
GetParametersAnyEnv == GetParametersCallIn(ProcEnv)

NextTools ==
    \/ ListTracksCall
    \/ CreateTrackCall
    \/ ProjectInfoCall
    \/ ActivateToolCall
    \/ ProjectOpenCall
    \/ TransportCall
    \/ ListInstalledCall
    \/ MidiToolCall
    \/ UnknownToolCall
    \/ CheckAccessibilityCall
    \/ SetParameterAnyEnv
    \/ GetParametersAnyEnv

SpecTools == InitTools /\ [][NextTools]_vars

-----------------------------------------------------------------------------
(* The functions of midi-bridge.ts called one after the other *)

MaxOutputs == 2

MidiChannels == {-1, 0, 3, 15, 16}
MidiData == {-1, 0, 42, 60, 127, 128, 200, 255}

BridgeState == Bridge(output, ports, sent)

(* a call of a bridge function that left the bridge as r.b and ended as   *)
(* r.ret; pre keeps the bridge as it was before the call                   *)
BridgeCall(op, args, r) ==
    /\ call' = [op |-> op, args |-> args]
    /\ pre' = BridgeState
    /\ out' = r.ret
    /\ output' = r.b.output
    /\ ports' = r.b.ports
    /\ sent' = r.b.sent
    /\ UNCHANGED <<ui, log, written, hout, result, tasks>>

InitBridge ==
    /\ ui = <<>>
    /\ InitCommon

OpenMidiPortCall ==
    /\ output # 0 \/ Len(ports) < MaxOutputs
    /\ \E env \in OpenOutcomes :
          BridgeCall("openMidiPort", <<>>, openMidiPort(BridgeState, env))

CloseMidiPortCall ==
    \E b \in {closeMidiPort(BridgeState)} :
        BridgeCall("closeMidiPort", <<>>, [b |-> b, ret |-> Return("void")])

IsMidiPortOpenCall ==
    \E open \in {isMidiPortOpen(BridgeState)} :
        BridgeCall("isMidiPortOpen", <<>>,
                   [b |-> BridgeState, ret |-> Return(open)])

(* one message is sent in a behaviour *)
SendNoteOnCall ==
    /\ sent = <<>>
    /\ \E ch \in MidiChannels, note \in MidiData, vel \in MidiData :
          BridgeCall("sendNoteOn", <<ch, note, vel>>,
                     sendNoteOn(BridgeState, ch, note, vel, 0))

SendNoteOffCall ==
    /\ sent = <<>>
    /\ \E ch \in MidiChannels, note \in MidiData :
          BridgeCall("sendNoteOff", <<ch, note>>,
                     sendNoteOff(BridgeState, ch, note, 0))

SendCCCall ==
    /\ sent = <<>>
    /\ \E ch \in MidiChannels, controller \in MidiData, value \in MidiData :
          BridgeCall("sendCC", <<ch, controller, value>>,
                     sendCC(BridgeState, ch, controller, value, 0))

SendProgramChangeCall ==
    /\ sent = <<>>
    /\ \E ch \in MidiChannels, program \in MidiData :
          BridgeCall("sendProgramChange", <<ch, program>>,
                     sendProgramChange(BridgeState, ch, program, 0))

NextBridge ==
    \/ OpenMidiPortCall
    \/ CloseMidiPortCall
    \/ IsMidiPortOpenCall
    \/ SendNoteOnCall
    \/ SendNoteOffCall
    \/ SendCCCall
    \/ SendProgramChangeCall

SpecBridge == InitBridge /\ [][NextBridge]_vars

-----------------------------------------------------------------------------
(* The server: main opens the port, MIDI tool calls run concurrently, each *)
(* step running a handler from one await to the next, and a signal closes  *)
(* the port and exits                                                      *)

MaxNotes == 2

CallIds == {1, 2}

NoteEvents ==
    {[note |-> 60, velocity |-> 100],
     [note |-> 64, velocity |-> 90, channel |-> 1, duration |-> 1,
      delay |-> 1]}

NoteLists == SeqsUpTo(NoteEvents, MaxNotes)

ChordArgs ==
    {[notes |-> ns] : ns \in SeqsUpTo({60, 64}, MaxNotes)}
      \cup {[notes |-> <<60, 188>>, velocity |-> 100, duration |-> 10,
             channel |-> 16]}

CCArgs ==
    {[controller |-> 7, value |-> 100],
     [controller |-> 64, value |-> 127, channel |-> 1]}

MidiArgs(tool) ==
    CASE tool = "midi_send_notes" -> {[notes |-> ns] : ns \in NoteLists}
      [] tool = "midi_send_pattern" ->
            {[notes |-> ns] : ns \in NoteLists}
              \cup {[notes |-> <<e>>, bpm |-> 90] : e \in NoteEvents}
      [] tool = "midi_send_chord" -> ChordArgs
      [] tool = "midi_send_cc" -> CCArgs

Pending(t) == t.pc \in {"delay", "hold"}

InitMidi ==
    /\ ui = <<>>
    /\ InitCommon

(* main(): the port is opened, a failure is only written to stderr *)
Main ==
    /\ call.op = "none"
    /\ \E env \in OpenOutcomes :
          LET r == openMidiPort(BridgeState, env)
          IN  /\ output' = r.b.output
              /\ ports' = r.b.ports
              /\ log' = <<IF r.ret.kind = "throw"
                          THEN "Warning: Could not open MIDI port"
                          ELSE "Virtual MIDI port opened">>
    /\ call' = [op |-> "serving"]
    /\ UNCHANGED <<ui, pre, written, out, hout, result, sent, tasks>>

(* tools/call of a MIDI tool: the handler runs to its first await *)
MidiCall(tool) ==
    /\ call.op = "serving"
    /\ Len(tasks) < Cardinality(CallIds)
    /\ \E args \in MidiArgs(tool) :
          \E r \in {midiHandler(BridgeState, Task(Len(tasks) + 1, tool, args))} :
              /\ output' = r.b.output
              /\ ports' = r.b.ports
              /\ sent' = r.b.sent
              /\ tasks' = Append(tasks, r.t)
    /\ UNCHANGED <<ui, pre, call, log, written, out, hout, result>>

SendNotesToolCall == MidiCall("midi_send_notes")
SendPatternToolCall == MidiCall("midi_send_pattern")
SendChordToolCall == MidiCall("midi_send_chord")
SendCCToolCall == MidiCall("midi_send_cc")

(* the timer of a suspended handler fires *)
TimerFires ==
    /\ call.op = "serving"
    /\ \E k \in DOMAIN tasks :
          /\ Pending(tasks[k])
          /\ \E r \in {midiResume(BridgeState, tasks[k])} :
                /\ output' = r.b.output
                /\ ports' = r.b.ports
                /\ sent' = r.b.sent
                /\ tasks' = [tasks EXCEPT ![k] = r.t]
    /\ UNCHANGED <<ui, pre, call, log, written, out, hout, result>>

(* SIGINT or SIGTERM: closeMidiPort(), then process.exit(0) *)
Shutdown ==
    /\ call.op = "serving"
    /\ \E b \in {closeMidiPort(BridgeState)} :
          /\ output' = b.output
          /\ ports' = b.ports
    /\ tasks' = [k \in DOMAIN tasks |->
                    IF Pending(tasks[k]) THEN [tasks[k] EXCEPT !.pc = "exited"]
                    ELSE tasks[k]]
    /\ call' = [op |-> "exited"]
    /\ UNCHANGED <<ui, pre, log, written, out, hout, result, sent>>

NextMidi ==
    \/ Main
    \/ SendNotesToolCall
    \/ SendPatternToolCall
    \/ SendChordToolCall
    \/ SendCCToolCall
    \/ TimerFires
    \/ Shutdown

SpecMidi == InitMidi /\ [][NextMidi]_vars

-----------------------------------------------------------------------------
(* parseAuvalOutput applied to the text auval has printed (held in pre) *)

MaxLines == 2

lnBandpass ==
    <<"a", "u", "f", "x", " ", " ", " ", " ", "A", "U", "B", "a", " ", " ",
      " ", " ", "a", "p", "p", "l", " ", " ", " ", " ", "-", " ", " ", "A",
      "U", "B", "a", "n", "d", "p", "a", "s", "s">>

lnIndented ==
    <<" ", " ", " ", " ", "a", "u", "m", "f", " ", " ", " ", " ", "C", "E",
      "Q", "u", " ", " ", " ", " ", "a", "p", "p", "l", " ", " ", " ", " ",
      "-", " ", " ", "C", "h", "a", "n", "n", "e", "l", " ", "E", "Q">>

lnProQ ==
    <<"a", "u", "f", "x", " ", "F", "Q", "0", "3", " ", "F", "a", "b", "F",
      " ", "-", " ", "F", "a", "b", "F", "i", "l", "t", "e", "r", " ", "P",
      "r", "o", "-", "Q", " ", "3", " ">>

lnTabs ==
    <<"a", "u", "m", "u", "\t", "d", "l", "s", "s", "\t", "a", "p", "p",
      "l", "\t", "-", "\t", "D", "L", "S">>

lnKontakt ==
    <<"a", "u", "m", "u", " ", "N", "i", "K", "5", " ", "-", "N", "I", "-",
      " ", "-", " ", "K", "o", "n", "t", "a", "k", "t">>

lnBlankName ==
    <<"a", "u", "f", "x", " ", "A", "U", "D", "y", " ", "a", "p", "p", "l",
      " ", "-", " ", " ">>

lnNoName ==
    <<"a", "u", "f", "x", " ", "A", "U", "D", "y", " ", "a", "p", "p", "l",
      " ", "-">>

lnNoDash ==
    <<"a", "u", "f", "x", " ", "A", "U", "D", "y", " ", "a", "p", "p", "l",
      " ", "A", "U", "D", "y", "n", "a", "m", "i", "c", "s">>

lnDashGlued ==
    <<"a", "u", "f", "x", " ", "A", "U", "D", "y", " ", "a", "p", "p", "l",
      " ", "-", "A", "U", "D", "y", "n", "a", "m", "i", "c", "s">>

lnLongCode ==
    <<"a", "u", "f", "x", "x", " ", "A", "U", "D", "y", " ", "a", "p", "p",
      "l", " ", "-", " ", "A", "U", "D", "y", "n", "a", "m", "i", "c", "s">>

lnTwoCodes ==
    <<"a", "u", "f", "x", " ", "a", "p", "p", "l", " ", "-", " ", "A", "U",
      "D", "y", "n", "a", "m", "i", "c", "s">>

lnHeader ==
    <<"A", "U", " ", "V", "a", "l", "i", "d", "a", "t", "i", "o", "n", " ",
      "T", "o", "o", "l">>

lnEmpty == <<>>

AuvalLines ==
    {lnBandpass, lnIndented, lnProQ, lnTabs,
     lnKontakt, lnBlankName, lnNoName, lnNoDash,
     lnDashGlued, lnLongCode, lnTwoCodes, lnHeader,
     lnEmpty}

(* the lines joined by "\n" *)
RECURSIVE joinLines(_)
joinLines(ls) ==
    IF ls = <<>> THEN <<>>
    ELSE IF Len(ls) = 1 THEN ls[1]
    ELSE ls[1] \o <<"\n">> \o joinLines(Tail(ls))

AuvalTexts == {joinLines(ls) : ls \in SeqsUpTo(AuvalLines, MaxLines)}

InitAuval ==
    /\ ui = <<>>
    /\ pre \in AuvalTexts
    /\ call = NoCall
    /\ log = <<>>
    /\ written = <<>>
    /\ out = NoOut
    /\ hout = NoOut
    /\ result = NoOut
    /\ output = 0
    /\ ports = <<>>
    /\ sent = <<>>
    /\ tasks = <<>>

ParseAuvalOutputCall ==
    /\ call.op = "none"
    /\ call' = [op |-> "parseAuvalOutput"]
    /\ out' = Return(parseAuvalOutput(pre))
    /\ UNCHANGED <<ui, pre, log, written, hout, result, midiVars>>

NextAuval == ParseAuvalOutputCall

SpecAuval == InitAuval /\ [][NextAuval]_vars

-----------------------------------------------------------------------------
(* Properties *)

SetParamText == "Parameter \"%1\" set to \"%2\". %3"

(* the elements set-param may write to for paramName: sliders and text    *)
(* fields with that name, at most ParamMaxDepth levels below a window      *)
WritableMatches(T, paramName) ==
    {j \in 1..Len(T) :
        /\ T[j].d >= 1 /\ T[j].d <= ParamMaxDepth
        /\ T[j].role \in {"AXSlider", "AXTextField"}
        /\ lowercased(ControlName(T, j)) = lowercased(paramName)}

IsListCall == call.op \in ListTools

JXAInvocations == {i \in DOMAIN log : log[i].cmd = "jxa"}

(* C1: when the helper fails in any way or prints an empty array, the JXA  *)
(* fallback is invoked exactly once and listTracks ends as the fallback    *)
(* does: it returns the fallback's track list unchanged, or fails with the *)
(* fallback's error in its details                                         *)
C1_FallbackDecidesOutcome ==
    (IsListCall /\ (log[1].env # "run" \/ listTracksAX(pre).stdout.val = <<>>))
        => /\ Cardinality(JXAInvocations) = 1
           /\ LET fb == listTracksJXA(log[Len(log)].env, listTracksScript(pre))
              IN  /\ fb.kind = "return" => out = fb
                  /\ fb.kind = "throw" =>
                        /\ out.kind = "throw"
                        /\ SubSeq(out.msg, 2, Len(out.msg)) = fb.msg

(* C1 as stated: when the helper fails in any way or prints an empty       *)
(* array, the JXA fallback is invoked exactly once and the outcome of      *)
(* listTracks is exactly the outcome of the fallback, value or failure,    *)
(* unchanged                                                               *)
C1_FallbackResultUnchanged ==
    (IsListCall /\ (log[1].env # "run" \/ listTracksAX(pre).stdout.val = <<>>))
        => /\ Cardinality(JXAInvocations) = 1
           /\ out = listTracksJXA(log[Len(log)].env, listTracksScript(pre))

(* the helper ran and found no track, the fallback found some *)
C1_Witness ==
    /\ IsListCall
    /\ log[1].env = "run"
    /\ listTracksAX(pre).stdout.val = <<>>
    /\ Len(log) = 2
    /\ out.kind = "return"
    /\ Len(out.val) > 0

(* C2: when the helper prints a non-empty track array, listTracks returns  *)
(* that array and no fallback process is spawned in the call, however the  *)
(* fallback would have fared                                               *)
C2_PrivilegedResultIsTerminal ==
    (IsListCall /\ log[1].env = "run" /\ listTracksAX(pre).stdout.val # <<>>)
        => /\ out = Return(listTracksAX(pre).stdout.val)
           /\ JXAInvocations = {}
           /\ Len(log) = 1

C2_Witness ==
    /\ IsListCall
    /\ log[1].env = "run"
    /\ out.kind = "return"
    /\ Len(out.val) > 0
    /\ Len(log) = 1

(* C3: a set-param request that finds no writable control named paramName *)
(* within the depth bound yields a tool result with isError and without    *)
(* the text saying the parameter was set                                   *)
C3_NotFoundIsError ==
    (call.op = "plugin_set_parameter" /\ log[1].env = "run"
        /\ WritableMatches(pre, call.args.parameterName) = {})
        => /\ result.val.isError
           /\ result.val.fmt # SetParamText

(* C4: every tool call ends with a result object returned by the request   *)
(* handler; when the tool's handler threw, the result has isError and the  *)
(* text "Error: " followed by the message of the failure                   *)
C4_NoExceptionCrossesBoundary ==
    (call.op \notin {"none", "checkAccessibility"})
        => /\ result.kind = "return"
           /\ result.val.isError \in BOOLEAN
           /\ hout.kind = "throw" =>
                 /\ result.val.isError
                 /\ result.val.fmt = "Error: %1"
                 /\ result.val.a = hout.msg

C4_Witness ==
    /\ call.op \in toolMap
    /\ hout.kind = "throw"
    /\ result.kind = "return"
    /\ result.val.isError

(* C5: with two writable elements named paramName within the depth bound,  *)
(* the element a set-param call for that name writes to is the one that is *)
(* first in pre-order, and the value of every later one is unchanged       *)
C5_EarlierElementMutated ==
    (call.op = "plugin_set_parameter" /\ log[1].env = "run"
        /\ Cardinality(WritableMatches(pre, call.args.parameterName)) >= 2)
        => LET ms == WritableMatches(pre, call.args.parameterName)
               first == CHOOSE j \in ms : \A k \in ms : j <= k
           IN  /\ written # <<>> => written = <<first>>
               /\ \A k \in ms \ {first} : ui[k].value = pre[k].value

(* C6: no track of either backend is read from an element more than       *)
(* TrackMaxDepth levels below the track container, and no parameter of     *)
(* get-params from an element more than ParamMaxDepth levels below a window *)
C6_DepthBound ==
    /\ (out.kind = "tracks" /\ out.swift.ran) =>
          \A k \in DOMAIN out.swift.tracks :
             LevelBelow(ui, swiftContainer(ui), out.swift.tracks[k].elem)
                <= TrackMaxDepth
    /\ (out.kind = "tracks" /\ out.jxa.ran) =>
          \A k \in DOMAIN out.jxa.tracks :
             LevelBelow(ui, jxaContainer(ui), out.jxa.tracks[k].elem)
                <= TrackMaxDepth
    /\ (call.op = "plugin_get_parameters" /\ out.kind = "return") =>
          \A k \in DOMAIN out.val : ui[out.val[k].elem].d <= ParamMaxDepth

(* C7: the plugin-name scan under a track element is depth-bounded: no     *)
(* plugin name is read from an element more than TrackMaxDepth levels      *)
(* below the track element                                                 *)
C7_PluginScanBounded ==
    (out.kind = "tracks" /\ out.swift.ran) =>
        \A k \in DOMAIN out.swift.tracks :
            \A p \in DOMAIN out.swift.tracks[k].pluginElems :
                LevelBelow(ui, out.swift.tracks[k].elem,
                           out.swift.tracks[k].pluginElems[p]) <= TrackMaxDepth

(* C8: on every tree the two backends find the same container, select the *)
(* same elements in the same order and read the same index, trackNumber,   *)
(* name, muted, solo, recordEnabled and volume                             *)
C8_BackendParity ==
    (call.op = "both") =>
        /\ swiftContainer(ui) = jxaContainer(ui)
        /\ Len(out.swift.tracks) = Len(out.jxa.tracks)
        /\ \A k \in DOMAIN out.swift.tracks :
              k \in DOMAIN out.jxa.tracks =>
                 LET a == out.swift.tracks[k]
                     b == out.jxa.tracks[k]
                 IN  /\ a.elem = b.elem
                     /\ a.index = b.index
                     /\ a.trackNumber = b.trackNumber
                     /\ a.name = b.name
                     /\ a.muted = b.muted
                     /\ a.solo = b.solo
                     /\ a.recordEnabled = b.recordEnabled
                     /\ a.volume = b.volume

(* C9: an invocation that times out is the last one of its operation, and  *)
(* the operation reports a failure                                         *)
C9_TimeoutIsFatal ==
    \A i \in DOMAIN log :
        (call.op \in toolMap /\ log[i].env = "timeout")
            => /\ i = Len(log)
               /\ result.val.isError

(* C10: outside the tools that list tracks, a failed invocation ends the   *)
(* operation with an error: nothing else is tried and no success (or       *)
(* plain value) is reported                                                *)
C10_OnlyCoordinatorRecovers ==
    \A i \in DOMAIN log :
        (call.op \notin ListTools /\ log[i].ret.kind = "throw")
            => /\ i = Len(log)
               /\ call.op \in toolMap => result.val.isError
               /\ call.op = "checkAccessibility" => out.kind = "throw"

(* the fragments of error texts that name the Accessibility grant, and     *)
(* those that name the availability of a backend's binary                  *)
PermissionTexts ==
    {"Could not list tracks. Ensure Logic Pro is open and Accessibility is granted. Details: ",
     "Could not list tracks via Accessibility API. Ensure Logic Pro is open and Accessibility access is granted."}

BinaryTexts ==
    {"Swift accessibility helper not found. Run: cd swift-helper && swift build -c release",
     "spawn osascript ENOENT"}

(* C11: when listTracks fails, the text of its error names both the        *)
(* Accessibility grant and the availability of the backend binary          *)
C11_ErrorNamesBothPrerequisites ==
    (IsListCall /\ out.kind = "throw")
        => /\ \E i \in DOMAIN out.msg : out.msg[i] \in PermissionTexts
           /\ \E i \in DOMAIN out.msg : out.msg[i] \in BinaryTexts

(* C20: when the osascript process of the fallback exits with success and  *)
(* its output is no JSON document, listTracks returns the empty list and   *)
(* track_list reports no error                                             *)
C20_MalformedFallbackIsEmpty ==
    (IsListCall /\ Len(log) = 2 /\ log[2].env = "garbage")
        => /\ out = Return(<<>>)
           /\ call.op = "track_list" => ~result.val.isError

(* the helper binary is missing and the fallback prints no JSON *)
C20_Witness ==
    /\ call.op = "track_list"
    /\ Len(log) = 2
    /\ log[1].env = "ENOENT"
    /\ log[2].env = "garbage"
    /\ out = Return(<<>>)
    /\ ~result.val.isError

(* the track lists the two extractions printed, empty before they ran *)
SwiftTracks == IF out.kind = "tracks" THEN out.swift.tracks ELSE <<>>
JXATracks == IF out.kind = "tracks" THEN out.jxa.tracks ELSE <<>>
ExtractedLists == {SwiftTracks, JXATracks}

(* C12: in the track list of either extraction the element at position k   *)
(* (from 0) has index k                                                    *)
C12_IndexDense ==
    \A tracks \in ExtractedLists :
        \A k \in DOMAIN tracks : tracks[k].index = k - 1

(* both extractions ran on a tree with a track element inside the subtree  *)
(* of another track element                                                *)
C12_Witness ==
    /\ call.op = "both"
    /\ Len(SwiftTracks) = 3
    /\ Len(JXATracks) = 3
    /\ SwiftTracks[2].elem <= SubtreeEnd(ui, SwiftTracks[1].elem)
    /\ JXATracks[2].elem <= SubtreeEnd(ui, JXATracks[1].elem)

(* C13: for a label made of a track prefix, an integer N, a blank and Name *)
(* between a supported pair of quotes, either extraction reads the track   *)
(* number N and the name Name                                              *)
C13_QuotedLabelParsed ==
    \A tracks \in ExtractedLists :
        \A k \in DOMAIN tracks :
            \A p \in TrackPrefixes, n \in TrackNumbers, q \in QuotePairs,
               nm \in TrackNames :
                ui[tracks[k].elem].desc = MakeLabel(p, n, q, nm)
                    => /\ tracks[k].trackNumber = Num(digitsValue(n))
                       /\ tracks[k].name = nm

(* the tokens of a text between blanks, and the texts that are integers *)
WhitespaceTokens(s) == SelectSeq(splitJS(s), LAMBDA t : t # <<>>)

IsIntegerText(t) ==
    LET body == IF Len(t) > 0 /\ t[1] \in {"+", "-"} THEN Tail(t) ELSE t
    IN  body # <<>> /\ \A i \in DOMAIN body : body[i] \in Digits

IntegerOf(t) ==
    IF t[1] = "-" THEN 0 - digitsValue(Tail(t))
    ELSE IF t[1] = "+" THEN digitsValue(Tail(t))
    ELSE digitsValue(t)

ExpectedTrackNumber(label) ==
    LET tokens == WhitespaceTokens(label)
    IN  IF Len(tokens) >= 2 /\ IsIntegerText(tokens[2])
        THEN Num(IntegerOf(tokens[2]))
        ELSE Num(-1)

(* C14: the trackNumber of every track of either extraction is the second  *)
(* token of its label when that token is an integer, and -1 otherwise      *)
C14_TrackNumberIsInteger ==
    \A tracks \in ExtractedLists :
        \A k \in DOMAIN tracks :
            tracks[k].trackNumber = ExpectedTrackNumber(ui[tracks[k].elem].desc)

(* the immediate children of a track element that are the named control *)
ControlsNamed(element, role, desc) ==
    {c \in 1..Len(ui) :
        /\ \E i \in DOMAIN getChildren(ui, element) :
              getChildren(ui, element)[i] = c
        /\ ui[c].role = role
        /\ ui[c].desc = desc}

ExpectedVolume(element) ==
    LET sliders == {c \in ControlsNamed(element, "AXSlider", sVolume) :
                       IsIntegerText(ui[c].value)}
    IN  IF sliders = {} THEN Num(0)
        ELSE Num(IntegerOf(ui[CHOOSE c \in sliders : TRUE].value))

(* C15: every track of either extraction is muted (solo) exactly when a    *)
(* child checkbox Mute (Solo) has the value 1, and its volume is the       *)
(* integer value of its child slider Volume, 0 without one or when the     *)
(* value is no integer; in the three-track tree the second track has       *)
(* index 1, is muted and has volume 64                                     *)
C15_ControlState ==
    \A tracks \in ExtractedLists :
        /\ \A k \in DOMAIN tracks :
              LET e == tracks[k].elem
              IN  /\ tracks[k].muted <=>
                        \E c \in ControlsNamed(e, "AXCheckBox", sMute) :
                            ui[c].value = sOne
                  /\ tracks[k].solo <=>
                        \E c \in ControlsNamed(e, "AXCheckBox", sSolo) :
                            ui[c].value = sOne
                  /\ tracks[k].volume = ExpectedVolume(e)
        /\ (ui = ThreeTrackTree /\ tracks # <<>>)
              => /\ tracks[2].index = 1
                 /\ tracks[2].muted
                 /\ tracks[2].volume = Num(64)

IsSetParamCall == call.op = "plugin_set_parameter" /\ log[1].env = "run"
IsGetParamsCall == call.op = "plugin_get_parameters" /\ log[1].env = "run"

(* the elements within the depth bound whose name is paramName, whatever   *)
(* their role                                                              *)
NamedMatches(T, paramName) ==
    {j \in 1..Len(T) :
        /\ T[j].d >= 1 /\ T[j].d <= ParamMaxDepth
        /\ lowercased(ControlName(T, j)) = lowercased(paramName)}

(* C16: when the first element in pre-order named paramName is a slider    *)
(* and the value is not numeric, or has a role that is not writable, the   *)
(* set-param call ends with an error and no element of the tree is written *)
C16_TypeMismatchIsFatal ==
    (IsSetParamCall /\ NamedMatches(pre, call.args.parameterName) # {})
        => LET ms == NamedMatches(pre, call.args.parameterName)
               first == CHOOSE j \in ms : \A k \in ms : j <= k
           IN  (\/ pre[first].role = "AXSlider" /\ ~FloatParses(call.args.value)
                \/ pre[first].role \notin {"AXSlider", "AXTextField"})
                   => /\ result.val.isError
                      /\ written = <<>>
                      /\ ui = pre

(* C17: when set-param prints that the parameter was set, the control it   *)
(* wrote to holds the new value                                            *)
C17_SuccessMeansWritten ==
    (IsSetParamCall /\ out = Return(Stdout("text", "Parameter set successfully")))
        => /\ written # <<>>
           /\ ui[written[1]].value = call.args.value

ParameterControls(T) ==
    SelectSeq([j \in 1..Len(T) |-> j],
              LAMBDA j : /\ T[j].d >= 1 /\ T[j].d <= ParamMaxDepth
                         /\ T[j].role \in {"AXSlider", "AXTextField",
                                           "AXPopUpButton"})

(* C19: get-params returns one entry, in pre-order, for every slider, text *)
(* field and pop-up button at most ParamMaxDepth levels below a window,    *)
(* with its name (description, else title), its value and its role        *)
C19_EveryParameterReturned ==
    IsGetParamsCall =>
        LET cs == ParameterControls(pre)
        IN  /\ out.kind = "return"
            /\ Len(out.val) = Len(cs)
            /\ \A k \in DOMAIN out.val :
                  k \in DOMAIN cs =>
                     /\ out.val[k].elem = cs[k]
                     /\ out.val[k].name = ControlName(pre, cs[k])
                     /\ out.val[k].value = pre[cs[k]].value
                     /\ out.val[k].role = pre[cs[k]].role

(* the elements between element i and element j that have j in their      *)
(* subtree                                                                 *)
Between(T, i, j) == {a \in (i + 1)..(j - 1) : SubtreeEnd(T, a) >= j}

(* the elements described like c that the helper's search can reach: at    *)
(* most ContainerMaxDepth + 1 levels below the main window                 *)
SwiftCandidates(c) ==
    {j \in (mainWindow(ui) + 1)..SubtreeEnd(ui, mainWindow(ui)) :
        /\ ui[j].desc = ui[c].desc
        /\ LevelBelow(ui, mainWindow(ui), j) <= ContainerMaxDepth + 1}

(* the groups with a container description that the script's search can   *)
(* reach: through groups only, at most JXAContainerMaxDepth + 1 levels     *)
(* below the main window                                                   *)
JXACandidates ==
    {j \in (mainWindow(ui) + 1)..SubtreeEnd(ui, mainWindow(ui)) :
        /\ ui[j].desc \in {sSpuren, sTracks}
        /\ ui[j].role = "AXGroup"
        /\ \A a \in Between(ui, mainWindow(ui), j) : ui[a].role = "AXGroup"
        /\ LevelBelow(ui, mainWindow(ui), j) <= JXAContainerMaxDepth + 1}

(* C21: the container either search returns is, among the elements within  *)
(* its depth bound that carry the searched description, the first one in   *)
(* pre-order                                                               *)
C21_FirstInPreOrder ==
    /\ (out.kind = "tracks" /\ out.swift.ran /\ swiftContainer(ui) # 0)
          => \A j \in SwiftCandidates(swiftContainer(ui)) :
                swiftContainer(ui) <= j
    /\ (out.kind = "tracks" /\ out.jxa.ran /\ jxaContainer(ui) # 0)
          => \A j \in JXACandidates : jxaContainer(ui) <= j

(* the buttons in the subtree of a track element that count as plugins *)
PluginButtons(element) ==
    SelectSeq([k \in 1..(SubtreeEnd(ui, element) - element) |-> element + k],
              LAMBDA j : /\ ui[j].role = "AXButton"
                         /\ ui[j].title \notin {<<>>, sM, sS, sR})

(* C22: the plugins of every track of either extraction are the titles, in *)
(* pre-order, of the buttons in the subtree of the track element that have *)
(* a title other than M, S and R                                           *)
C22_PluginsAreSubtreeButtons ==
    \A tracks \in ExtractedLists :
        \A k \in DOMAIN tracks :
            LET bs == PluginButtons(tracks[k].elem)
            IN  tracks[k].plugins = [i \in 1..Len(bs) |-> ui[bs[i]].title]

(* C23: a set-param call writes to at most one element, that element is a  *)
(* slider or a text field whose name equals paramName up to case, and no   *)
(* other element of the tree changes                                       *)
C23_ExactNameOnly ==
    IsSetParamCall =>
        /\ Len(written) <= 1
        /\ \A i \in DOMAIN written :
              /\ pre[written[i]].role \in {"AXSlider", "AXTextField"}
              /\ lowercased(ControlName(pre, written[i]))
                    = lowercased(call.args.parameterName)
        /\ \A j \in DOMAIN ui :
              ui[j] # pre[j] => \E i \in DOMAIN written : written[i] = j

(* "gain" was asked for, a slider named Gain Mode comes first in pre-order *)
(* and the control named Gain behind it was written                        *)
C23_Witness ==
    /\ IsSetParamCall
    /\ call.args.parameterName = sGainLower
    /\ written # <<>>
    /\ ui # pre
    /\ ControlName(pre, written[1]) = sGain
    /\ \E j \in 1..(written[1] - 1) : ControlName(pre, j) = sGainMode

(* the message a bridge call that returned has handed to the sink *)
LastSent == sent[Len(sent)].bytes

SendOps == {"sendNoteOn", "sendNoteOff", "sendCC", "sendProgramChange"}

(* C24: every message handed to the sink has the status byte of its type   *)
(* plus the channel modulo 16, data bytes that are the inputs modulo 128,   *)
(* velocity 0 in a note-off, and three bytes, two for a program change      *)
C24_MessagesWellFormed ==
    (call.op \in SendOps /\ out.kind = "return") =>
        LET a == call.args
            ch == a[1] % 16
        IN  /\ sent # pre.sent
            /\ \A i \in DOMAIN LastSent : LastSent[i] \in 0..255
            /\ \A i \in 2..Len(LastSent) : LastSent[i] \in 0..127
            /\ call.op = "sendNoteOn" =>
                 LastSent = <<144 + ch, a[2] % 128, a[3] % 128>>
            /\ call.op = "sendNoteOff" =>
                 LastSent = <<128 + ch, a[2] % 128, 0>>
            /\ call.op = "sendCC" =>
                 LastSent = <<176 + ch, a[2] % 128, a[3] % 128>>
            /\ call.op = "sendProgramChange" =>
                 LastSent = <<192 + ch, a[2] % 128>>

(* channel 16, note 200 and velocity 255 were sent as 144, 72, 127 *)
C24_Witness ==
    /\ call.op = "sendNoteOn"
    /\ call.args = <<16, 200, 255>>
    /\ out.kind = "return"
    /\ LastSent = <<144, 72, 127>>

(* the port of the Output object that b.output refers to is open *)
PortIsOpen(b) == b.output # 0 /\ b.ports[b.output].state = "open"

(* C25: at most one port is open; openMidiPort on an open port and         *)
(* closeMidiPort on a closed port change nothing and close nothing;         *)
(* isMidiPortOpen holds after an open that returned and fails after close   *)
C25_OpenCloseIdempotent ==
    /\ Cardinality({i \in DOMAIN ports : ports[i].state = "open"}) <= 1
    /\ (call.op = "openMidiPort" /\ PortIsOpen(pre))
          => BridgeState = pre
    /\ (call.op = "closeMidiPort" /\ ~PortIsOpen(pre))
          => BridgeState = pre
    /\ (call.op = "openMidiPort" /\ out.kind = "return")
          => isMidiPortOpen(BridgeState)
    /\ call.op = "closeMidiPort" => ~isMidiPortOpen(BridgeState)

(* the messages a tool call has handed to the sink, in the order sent *)
ByTask(id) == SelectSeq(sent, LAMBDA m : m.by = id)

NoteOnBytes(e, note, velocity) ==
    <<144 + ((IF Has(e, "channel") THEN e.channel ELSE 0) % 16), note % 128,
      velocity % 128>>

NoteOffBytes(e, note) ==
    <<128 + ((IF Has(e, "channel") THEN e.channel ELSE 0) % 16), note % 128,
      0>>

Returned(t) == t.pc = "done" /\ t.h.kind = "return"

(* C28: a midi_send_notes call emits note-on, note-off of its first note,  *)
(* then of its second, and so on in input order; a midi_send_chord call    *)
(* emits the note-ons of all its notes in input order before any note-off, *)
(* and as many note-offs as note-ons once it has returned                  *)
C28_NotesInSequence ==
    \A k \in DOMAIN tasks :
        LET t == tasks[k]
            ns == t.args.notes
            ms == ByTask(t.id)
        IN  /\ t.tool = "midi_send_notes" =>
                 /\ Len(ms) <= 2 * Len(ns)
                 /\ Returned(t) => Len(ms) = 2 * Len(ns)
                 /\ \A j \in DOMAIN ms :
                       LET e == ns[(j + 1) \div 2]
                       IN  ms[j].bytes =
                             IF j % 2 = 1
                             THEN NoteOnBytes(e, e.note, e.velocity)
                             ELSE NoteOffBytes(e, e.note)
            /\ t.tool = "midi_send_chord" =>
                 /\ Len(ms) <= 2 * Len(ns)
                 /\ Returned(t) => Len(ms) = 2 * Len(ns)
                 /\ \A j \in DOMAIN ms :
                       ms[j].bytes =
                         IF j <= Len(ns)
                         THEN NoteOnBytes(t.args, ns[j],
                                          IF Has(t.args, "velocity")
                                          THEN t.args.velocity ELSE 80)
                         ELSE NoteOffBytes(t.args, ns[j - Len(ns)])

(* a midi_send_notes call of two notes and a midi_send_chord call of two  *)
(* notes have both returned, their messages interleaved                    *)
C28_Witness ==
    /\ \E k \in DOMAIN tasks :
          /\ tasks[k].tool = "midi_send_notes"
          /\ Len(tasks[k].args.notes) = 2
          /\ Returned(tasks[k])
    /\ \E k \in DOMAIN tasks :
          /\ tasks[k].tool = "midi_send_chord"
          /\ Len(tasks[k].args.notes) = 2
          /\ Returned(tasks[k])
    /\ Len(sent) = 8
    /\ sent[1].by # sent[2].by

(* C29: isMidiPortOpen holds only while the port of the current Output is  *)
(* open, and no message is handed to an Output whose port was never opened *)
C29_IsMidiPortOpenTruthful ==
    /\ isMidiPortOpen(BridgeState) => PortIsOpen(BridgeState)
    /\ \A k \in DOMAIN sent : ports[sent[k].to].opened

IsNoteOn(m) == m.bytes[1] \div 16 = 9
IsNoteOff(m) == m.bytes[1] \div 16 = 8
SameKey(m, n) == m.bytes[1] % 16 = n.bytes[1] % 16 /\ m.bytes[2] = n.bytes[2]

(* C30: once no call is suspended any more, every note-on has been         *)
(* followed by a note-off of its channel and note; and a note-off of one   *)
(* call never comes while another call holds that channel and note         *)
C30_NoStuckNotes ==
    /\ (\A k \in DOMAIN tasks : ~Pending(tasks[k]))
          => \A j \in DOMAIN sent :
                IsNoteOn(sent[j])
                  => \E k \in (j + 1)..Len(sent) :
                        IsNoteOff(sent[k]) /\ SameKey(sent[j], sent[k])
    /\ \A k \in DOMAIN sent :
          IsNoteOff(sent[k])
            => \A j \in 1..(k - 1) :
                  (/\ IsNoteOn(sent[j])
                   /\ SameKey(sent[j], sent[k])
                   /\ sent[j].by # sent[k].by)
                    => \E m \in (j + 1)..(k - 1) :
                          /\ IsNoteOff(sent[m])
                          /\ SameKey(sent[j], sent[m])
                          /\ sent[m].by = sent[j].by

(* the whitespace-separated pieces of a line from position i on, each as   *)
(* the positions of its first and last character                           *)
RECURSIVE AuFields(_, _)
AuFields(s, i) ==
    LET from == skipSpace(s, i)
        ends == {j \in from..Len(s) : j = Len(s) \/ isSpace(s[j + 1])}
        to == CHOOSE j \in ends : \A k \in ends : j <= k
    IN  IF from > Len(s) THEN <<>>
        ELSE <<[from |-> from, to |-> to]>> \o AuFields(s, to + 1)

Piece(s, f) == SubSeq(s, f.from, f.to)

(* the record of a line made of three four-character tokens, a dash and a  *)
(* name that is not empty; no record for any other line                    *)
CatalogRecord(line) ==
    LET fs == AuFields(line, 1)
    IN  IF /\ Len(fs) >= 5
           /\ \A k \in 1..3 : Len(Piece(line, fs[k])) = 4
           /\ Piece(line, fs[4]) = <<"-">>
        THEN <<[type |-> Piece(line, fs[1]),
                subtype |-> Piece(line, fs[2]),
                manufacturer |-> Piece(line, fs[3]),
                name |-> SubSeq(line, fs[5].from, fs[Len(fs)].to)]>>
        ELSE <<>>

RECURSIVE CatalogRecords(_)
CatalogRecords(lines) ==
    IF lines = <<>> THEN <<>>
    ELSE CatalogRecord(Head(lines)) \o CatalogRecords(Tail(lines))

(* C26: parseAuvalOutput returns, in input order, one record for each line *)
(* of three whitespace-separated four-character tokens, a dash and a name   *)
(* that is not empty, with the name trimmed, and nothing for other lines    *)
C26_CatalogParsed ==
    call.op = "parseAuvalOutput"
      => /\ out.kind = "return"
         /\ out.val = CatalogRecords(splitLines(pre))

(* C27: 35 tools are registered under pairwise distinct names, the map     *)
(* holds one entry for each and returns each tool for its name; a call of  *)
(* a registered name runs a handler, a call of any other name runs none    *)
(* and results in the error 'Unknown tool'                                 *)
C27_DispatchByName ==
    /\ Len(ALL_TOOLS) = 35
    /\ \A i, j \in DOMAIN ALL_TOOLS : ALL_TOOLS[i] = ALL_TOOLS[j] => i = j
    /\ Cardinality(toolMap) = Len(ALL_TOOLS)
    /\ \A i \in DOMAIN ALL_TOOLS : toolMapGet(ALL_TOOLS[i]) = i
    /\ call.op \notin {"none", "checkAccessibility"} =>
          IF toolMapGet(call.op) # 0
          THEN /\ hout.kind \in {"return", "throw"}
               /\ hout.kind = "return" => result = hout
          ELSE /\ hout = NoOut
               /\ log = <<>>
               /\ result = Return(ToolResult(TRUE, "Unknown tool: %1",
                                             <<call.op>>))

(* the last tool of the registry was called by its name and its handler's *)
(* result is the result of the call                                        *)
C27_Witness ==
    /\ call.op = "mixer_load_channel_strip_setting"
    /\ toolMapGet(call.op) = 35
    /\ hout.kind = "return"
    /\ result = hout

====
